---- MODULE Spec2Model ----
(***************************************************************************)
(* Content lifecycle engine of the blog automation backend:               *)
(* BlogPostService / BlogIdeaService over the Firestore collections       *)
(* 'posts' and 'ideas', and the process-wide InMemoryCache.               *)
(*                                                                         *)
(* Every service method is an async function.  One step of the model is   *)
(* the synchronous code that runs between two store calls, ending with    *)
(* the effect of the store call it issues; the caller resumes in a later  *)
(* step, so other operations may run between a store call and the code    *)
(* that uses its result.                                                   *)
(***************************************************************************)
EXTENDS Integers, Sequences, FiniteSets, TLC

VARIABLES posts, ideas, cache, now, proc, picked, hooks,
          n8nRegenerateWebhookUrl, lastSet, cleanupInterval

vars == <<posts, ideas, cache, now, proc, picked, hooks,
        n8nRegenerateWebhookUrl, lastSet, cleanupInterval>>

(***************************************************************************)
(* Bounds of the model.                                                    *)
(***************************************************************************)
MaxClock == 2
NumCallers == 2
MaxHooks == 1
MaxBatch == 2
MaxDay == 6
MaxCount == 3

PostIds == {"p1"}
IdeaIds == {"i1", "i2"}
Callers == 1..NumCallers

(***************************************************************************)
(* Types (src/src/types/blog.ts).                                          *)
(***************************************************************************)
PostStatus ==
  {"BRIEF", "OUTLINE", "DRAFT", "NEEDS_REVIEW", "APPROVED", "SCHEDULED",
   "PUBLISHED", "REGENRATE"}

IdeaStatus == {"UNUSED", "PROCESSING", "USED"}

Priority == {"low", "medium", "high"}

\* A nullable value: <<>> is null, <<v>> is the value v.
Null == <<>>
Some(v) == <<v>>

(***************************************************************************)
(* Errors, named by the message the code throws.                           *)
(***************************************************************************)
PostNotFound == "Post not found"
NoIdeaId == "Post has no idea ID"
IdeaNotFound == "Idea not found"
InvalidTransition == "Invalid status transition"
InvalidOperation == "Only approved or scheduled posts can be published"
DeletePublished == "Cannot delete a published post"
DeleteUsed == "Cannot delete an idea that has been used"
AlreadyUsed == "Idea is already used"
AlreadyProcessing == "Idea is already processing"
\* Firestore rejects update() of a document that does not exist.
NoDocument == "NOT_FOUND: No document to update"

\* thrown as NotFoundError
NotFoundErrors == {PostNotFound, NoIdeaId, IdeaNotFound}
\* thrown as ValidationError
ValidationErrors ==
  {InvalidTransition, InvalidOperation, DeletePublished, DeleteUsed,
   AlreadyUsed, AlreadyProcessing}

\* The code of an error, as errorHandler reports it: that of the AppError
\* subclass thrown, INTERNAL_ERROR for an error that is no AppError.
ErrorCode(e) ==
  IF e \in NotFoundErrors THEN "NOT_FOUND"
  ELSE IF e \in ValidationErrors THEN "VALIDATION_ERROR"
  ELSE "INTERNAL_ERROR"

\* the code of ConflictError
Conflict == "CONFLICT"

(***************************************************************************)
(* The document store: a collection is a function from the ids of the     *)
(* documents it holds to their data.                                       *)
(***************************************************************************)
PostFields == {"id", "status", "publishedAt", "ideaId", "scheduledAt"}
IdeaFields ==
  {"id", "status", "priority", "createdAt", "isBriefCreated", "used"}

Restrict(f, S) == [k \in (DOMAIN f) \cap S |-> f[k]]

\* doc(id).get(): the snapshot; <<>> when the document does not exist.
DocGet(coll, id) == IF id \in DOMAIN coll THEN Some(coll[id]) ELSE Null

\* doc(id).set(data)
DocSet(coll, id, data) == (id :> data) @@ coll

\* doc(id).update(partial), the document existing: the fields given replace
\* the stored ones, the others stay.
DocUpdate(coll, id, partial, fields) ==
  (id :> (Restrict(partial, fields) @@ coll[id])) @@ coll

\* doc(id).delete()
DocDelete(coll, id) == [k \in (DOMAIN coll) \ {id} |-> coll[k]]

(***************************************************************************)
(* InMemoryCache (src/src/utils/cache.ts).  The map is a function from    *)
(* the keys present to their entries; instants are epoch milliseconds.    *)
(***************************************************************************)
defaultTtl == 300
CACHE_TTL == 300

PostKey(id) == <<"post", id>>
IdeaKey(id) == <<"idea", id>>
UnusedIdeasKey == <<"ideas:all", "UNUSED">>

CacheRemove(m, key) == [k \in (DOMAIN m) \ {key} |-> m[k]]

\* set(key, value, {ttl, tags})
CacheSet(m, t, key, value, ttl, tags) ==
  LET ttlUsed == IF ttl = 0 THEN defaultTtl ELSE ttl
  IN  (key :> [data |-> value,
               expiresAt |-> t + ttlUsed * 1000,
               tags |-> tags,
               createdAt |-> t]) @@ m

\* get(key): the value returned (Null for a miss) ...
CacheGet(m, t, key) ==
  IF key \notin DOMAIN m THEN Null
  ELSE IF t > m[key].expiresAt THEN Null
  ELSE Some(m[key].data)

\* ... and the map it leaves: an expired entry is evicted by the access.
CacheAfterGet(m, t, key) ==
  IF key \in DOMAIN m /\ t > m[key].expiresAt THEN CacheRemove(m, key) ELSE m

\* del(key)
CacheDel(m, key) == CacheRemove(m, key)

\* delByTag dropping every entry that has a tag at all.
CacheDelByTagAnyTag(m, tag) ==
  [k \in {j \in DOMAIN m : m[j].tags = {}} |-> m[k]]

\* delByTag(tag)
CacheDelByTag(m, tag) ==
  [k \in {j \in DOMAIN m : tag \notin m[j].tags} |-> m[k]]

(***************************************************************************)
(* BlogPostService.validateStatusTransition                                *)
(***************************************************************************)
validTransitions ==
  [s \in PostStatus |->
     CASE s = "BRIEF" -> {"OUTLINE", "DRAFT", "REGENRATE"}
       [] s = "OUTLINE" -> {"DRAFT", "BRIEF", "REGENRATE", "NEEDS_REVIEW"}
       [] s = "DRAFT" -> {"NEEDS_REVIEW", "OUTLINE", "REGENRATE"}
       [] s = "NEEDS_REVIEW" -> {"APPROVED", "DRAFT", "REGENRATE"}
       [] s = "APPROVED" -> {"SCHEDULED", "PUBLISHED", "DRAFT", "REGENRATE"}
       [] s = "SCHEDULED" -> {"PUBLISHED", "APPROVED", "REGENRATE"}
       [] s = "PUBLISHED" -> {"PUBLISHED", "REGENRATE"}
       [] s = "REGENRATE" -> {"BRIEF", "OUTLINE", "DRAFT", "NEEDS_REVIEW"}]

\* TRUE when the call returns, FALSE when it throws ValidationError.
validateStatusTransition(currentStatus, newStatus) ==
  newStatus \in validTransitions[currentStatus]

(***************************************************************************)
(* Operations in flight.  proc[c] is the activation record of caller c:   *)
(* the operation it runs, the await it is suspended at, the arguments and *)
(* the locals of the running method, and, once it has settled (pc =       *)
(* "done"), the value returned or the error thrown.  pre is the store as  *)
(* it was when the operation was called.                                   *)
(***************************************************************************)
Idle ==
  [op |-> "idle", pc |-> "idle", postId |-> "", ideaId |-> "",
   upd |-> <<>>, post |-> Null, cur |-> Null, doc |-> Null, ok |-> TRUE,
   ret |-> Null, err |-> "", pre |-> Null, batch |-> Null,
   factoryCalls |-> 0]

Call(opName, postId, ideaId, upd) ==
  [Idle EXCEPT !.op = opName, !.postId = postId, !.ideaId = ideaId,
               !.upd = upd,
               !.pre = Some([posts |-> posts, ideas |-> ideas])]

\* The operation of caller c goes on as p, the requests sent to the
\* regenerate webhook being h; the clock is read, not moved.
\* picked records the ideas that pickNextIdea calls have returned.
\* lastSet records, for the keys the cache operations are called with
\* directly, what the last set asked for, until a delete hits the key.
\* cleanupInterval is TRUE while the interval of the constructor is set.
Advance(c, p, h, ls) ==
  /\ proc' = [proc EXCEPT ![c] = p]
  /\ now' = now
  /\ picked' = IF p.op = "pickNextIdea" /\ p.pc = "done" /\ p.ret # <<>>
                THEN picked \cup {p.ret[1].id}
                ELSE picked
  /\ hooks' = h
  /\ n8nRegenerateWebhookUrl' = n8nRegenerateWebhookUrl
  /\ lastSet' = ls
  /\ cleanupInterval' = cleanupInterval

Step(c, p, h) == Advance(c, p, h, lastSet)

Resume(c, p) == Step(c, p, hooks)

Return(p, v) == [p EXCEPT !.pc = "done", !.ret = v]
Throw(p, e) == [p EXCEPT !.pc = "done", !.err = e]

At(c, label) == proc[c].pc = label
IsIdle(c) == proc[c].op = "idle"
\* No operation is in flight.
Quiescent == \A c \in Callers : IsIdle(c)

\* randomUUID(): an id no document, cache entry or running operation holds.
FreshPostId(id) ==
  /\ id \notin DOMAIN posts
  /\ PostKey(id) \notin DOMAIN cache
  /\ \A c \in Callers : proc[c].postId # id

(***************************************************************************)
(* BlogPostService.getIdeaByPostId: the ideaId it reads from the post      *)
(* document, postDoc.data()?.ideaId, "" when there is none.                *)
(***************************************************************************)
IdeaIdOf(snapshot) ==
  IF snapshot = Null THEN ""
  ELSE IF "ideaId" \in DOMAIN snapshot[1] THEN snapshot[1].ideaId ELSE ""

(***************************************************************************)
(* BlogIdeaService.updateIdea(ideaId, updates), as called by the post     *)
(* service: read the idea, NotFoundError if it is missing, update it,     *)
(* read it again, cache.delByTag("ideas").                                 *)
(***************************************************************************)
UpdateIdeaCall(c, p, m, nextPc) ==
  /\ Resume(c, [p EXCEPT !.pc = nextPc, !.doc = DocGet(ideas, p.ideaId)])
  /\ cache' = m
  /\ UNCHANGED <<posts, ideas>>

UpdateIdeaWrite(c, updates, nextPc) ==
  LET p == proc[c]
  IN  IF p.doc = Null
      THEN /\ Resume(c, Throw(p, IdeaNotFound))
           /\ UNCHANGED <<posts, ideas, cache>>
      ELSE IF p.ideaId \notin DOMAIN ideas
      THEN /\ Resume(c, Throw(p, NoDocument))
           /\ UNCHANGED <<posts, ideas, cache>>
      ELSE /\ ideas' = DocUpdate(ideas, p.ideaId, updates, IdeaFields)
           /\ Resume(c, [p EXCEPT !.pc = nextPc])
           /\ UNCHANGED <<posts, cache>>

UpdateIdeaReread(c, nextPc) ==
  /\ Resume(c, [proc[c] EXCEPT !.pc = nextPc,
                               !.doc = DocGet(ideas, proc[c].ideaId)])
  /\ UNCHANGED <<posts, ideas, cache>>

(***************************************************************************)
(* BlogPostService.updatePost(postId, updates)                             *)
(***************************************************************************)
\* postRef.get()
UpdatePostCall(c, p, m, updates) ==
  /\ Resume(c, [p EXCEPT !.pc = "up_read", !.upd = updates,
                         !.cur = DocGet(posts, p.postId)])
  /\ cache' = m
  /\ UNCHANGED <<posts, ideas>>

\* getIdeaByPostId: postRef.get() again, for the ideaId
UpdatePostReadIdeaId(c) ==
  /\ At(c, "up_read")
  /\ Resume(c, [proc[c] EXCEPT
                  !.pc = "up_idea",
                  !.ideaId = IdeaIdOf(DocGet(posts, proc[c].postId))])
  /\ UNCHANGED <<posts, ideas, cache>>

\* postRef.update without the validation
UpdatePostMainUnvalidated(c, p, m) ==
  IF p.cur = Null
  THEN /\ Resume(c, Throw(p, PostNotFound))
       /\ cache' = m
       /\ UNCHANGED <<posts, ideas>>
  ELSE IF p.postId \notin DOMAIN posts
  THEN /\ Resume(c, Throw(p, NoDocument))
       /\ cache' = m
       /\ UNCHANGED <<posts, ideas>>
  ELSE /\ posts' = DocUpdate(posts, p.postId, p.upd, PostFields)
       /\ Resume(c, [p EXCEPT !.pc = "up_written"])
       /\ cache' = m
       /\ UNCHANGED ideas

\* the idea at hand: the exists check, the validation, postRef.update
UpdatePostMain(c, p, m) ==
  IF p.cur = Null
  THEN /\ Resume(c, Throw(p, PostNotFound))
       /\ cache' = m
       /\ UNCHANGED <<posts, ideas>>
  ELSE IF /\ "status" \in DOMAIN p.upd
          /\ p.upd.status # p.cur[1].status
          /\ ~validateStatusTransition(p.cur[1].status, p.upd.status)
  THEN /\ Resume(c, Throw(p, InvalidTransition))
       /\ cache' = m
       /\ UNCHANGED <<posts, ideas>>
  ELSE IF p.postId \notin DOMAIN posts
  THEN /\ Resume(c, Throw(p, NoDocument))
       /\ cache' = m
       /\ UNCHANGED <<posts, ideas>>
  ELSE /\ posts' = DocUpdate(posts, p.postId, p.upd, PostFields)
       /\ Resume(c, [p EXCEPT !.pc = "up_written"])
       /\ cache' = m
       /\ UNCHANGED ideas

\* the auto-advance BRIEF -> OUTLINE, or else the read of the updated post
UpdatePostWritten(c) ==
  LET p == proc[c]
  IN  /\ At(c, "up_written")
      /\ IF "outline" \in DOMAIN p.upd /\ p.cur[1].status = "BRIEF"
         THEN IF p.postId \notin DOMAIN posts
              THEN /\ Resume(c, Throw(p, NoDocument))
                   /\ UNCHANGED <<posts, ideas, cache>>
              ELSE /\ posts' = DocUpdate(posts, p.postId,
                                         [status |-> "OUTLINE"], PostFields)
                   /\ Resume(c, [p EXCEPT !.pc = "up_auto"])
                   /\ UNCHANGED <<ideas, cache>>
         ELSE /\ Resume(c, [p EXCEPT !.pc = "up_reread",
                                     !.doc = DocGet(posts, p.postId)])
              /\ UNCHANGED <<posts, ideas, cache>>

\* updateIdea(idea.id, {isBriefCreated: true})
UpdatePostAuto(c) ==
  /\ At(c, "up_auto")
  /\ UpdateIdeaCall(c, proc[c], cache, "up_auto_idea")

UpdatePostAutoIdea(c) ==
  /\ At(c, "up_auto_idea")
  /\ UpdateIdeaWrite(c, [isBriefCreated |-> TRUE], "up_auto_upd")

UpdatePostAutoUpd(c) ==
  /\ At(c, "up_auto_upd")
  /\ UpdateIdeaReread(c, "up_auto_done")

\* updateIdea returns (cache.delByTag("ideas")); postRef.get()
UpdatePostAutoDone(c) ==
  /\ At(c, "up_auto_done")
  /\ Resume(c, [proc[c] EXCEPT !.pc = "up_reread",
                               !.doc = DocGet(posts, proc[c].postId)])
  /\ cache' = CacheDelByTag(cache, "ideas")
  /\ UNCHANGED <<posts, ideas>>

\* { ...updatedDoc.data(), id: updatedDoc.id }
UpdatedPost(snapshot, id) ==
  IF snapshot = Null THEN Some([id |-> id]) ELSE snapshot

\* The synchronous part of triggerRegenerateWebhook(post): without a
\* configured URL nothing is sent; else the payload is built and fetch is
\* called, its response pending.
triggerRegenerateWebhook(h, post) ==
  IF ~n8nRegenerateWebhookUrl
  THEN h
  ELSE Append(h, [postId |-> post.id, post |-> post,
                  outcome |-> "pending"])

\* the call of triggerRegenerateWebhook when updates.status is REGENRATE,
\* its promise left alone, and the return of updatedPost
UpdatePostReturn(c, p, updatedPost) ==
  Step(c, Return(p, updatedPost),
       IF "status" \in DOMAIN p.upd /\ p.upd.status = "REGENRATE"
       THEN triggerRegenerateWebhook(hooks, updatedPost[1])
       ELSE hooks)

\* the cache invalidation, updateIdeaStatus(idea.id, "USED") when the
\* updated post is PUBLISHED, and the return
UpdatePostReread(c) ==
  LET p == proc[c]
      updatedPost == UpdatedPost(p.doc, p.postId)
  IN  /\ At(c, "up_reread")
      /\ cache' = CacheDel(CacheDelByTag(cache, "posts"), PostKey(p.postId))
      /\ IF p.doc # Null /\ p.doc[1].status = "PUBLISHED"
         THEN IF p.ideaId \notin DOMAIN ideas
              THEN /\ Resume(c, Throw(p, NoDocument))
                   /\ UNCHANGED <<posts, ideas>>
              ELSE /\ ideas' = DocUpdate(ideas, p.ideaId,
                                         [status |-> "USED"], IdeaFields)
                   /\ Resume(c, [p EXCEPT !.pc = "up_used",
                                          !.ret = updatedPost])
                   /\ UNCHANGED posts
         ELSE /\ UpdatePostReturn(c, p, updatedPost)
              /\ UNCHANGED <<posts, ideas>>

UpdatePostUsed(c) ==
  /\ At(c, "up_used")
  /\ UpdatePostReturn(c, proc[c], proc[c].ret)
  /\ UNCHANGED <<posts, ideas, cache>>

(***************************************************************************)
(* BlogPostService.updatePostStatus(postId, {status})                     *)
(***************************************************************************)
\* new Date(undefined).getTime(): NaN, which is no instant (instants are
\* 0 or more)
NaN == Some(0 - 1)

\* updateData: the status, scheduledAt unless the request carries null
\* (`scheduledAt !== null`: a request that carries none has undefined), and
\* publishedAt when the post becomes PUBLISHED
StatusUpdateData(post, statusUpdate, t) ==
  [status |-> statusUpdate.status]
  @@ (IF "scheduledAt" \notin DOMAIN statusUpdate
      THEN [scheduledAt |-> NaN]
      ELSE IF statusUpdate.scheduledAt # Null
      THEN [scheduledAt |-> statusUpdate.scheduledAt]
      ELSE <<>>)
  @@ (IF statusUpdate.status = "PUBLISHED" /\ post.status # "PUBLISHED"
      THEN [publishedAt |-> Some(t)]
      ELSE <<>>)

\* the post at hand: the validation, updateData, markIdeaAsUsed (its read
\* of the idea) when the post becomes PUBLISHED, or else updatePost
UpdatePostStatusMain(c, p, m) ==
  LET post == p.post[1]
      status == p.upd.status
      updateData == StatusUpdateData(post, p.upd, now)
  IN  IF ~validateStatusTransition(post.status, status)
      THEN /\ Resume(c, Throw(p, InvalidTransition))
           /\ cache' = m
           /\ UNCHANGED <<posts, ideas>>
      ELSE IF /\ status = "PUBLISHED"
              /\ post.status # "PUBLISHED"
              /\ post.ideaId # ""
      THEN /\ Resume(c, [p EXCEPT !.pc = "ups_mark", !.upd = updateData,
                                  !.doc = DocGet(ideas, post.ideaId)])
           /\ cache' = m
           /\ UNCHANGED <<posts, ideas>>
      ELSE UpdatePostCall(c, p, m, updateData)

\* markIdeaAsUsed, inside the try/catch of updatePostStatus: what it throws
\* is logged and updatePost is called all the same
UpdatePostStatusMark(c) ==
  LET p == proc[c]
      ideaId == p.post[1].ideaId
  IN  /\ At(c, "ups_mark")
      /\ IF p.doc = Null
         THEN UpdatePostCall(c, p, cache, p.upd)
         ELSE IF p.doc[1].status \in {"USED", "PROCESSING"}
         THEN UpdatePostCall(c, p, cache, p.upd)
         ELSE IF ideaId \notin DOMAIN ideas
         THEN /\ Resume(c, [p EXCEPT !.pc = "ups_marked", !.ok = FALSE])
              /\ UNCHANGED <<posts, ideas, cache>>
         ELSE /\ ideas' = DocUpdate(ideas, ideaId, [status |-> "USED"],
                                    IdeaFields)
              /\ Resume(c, [p EXCEPT !.pc = "ups_marked", !.ok = TRUE])
              /\ UNCHANGED <<posts, cache>>

UpdatePostStatusMarked(c) ==
  LET p == proc[c]
  IN  /\ At(c, "ups_marked")
      /\ UpdatePostCall(c, [p EXCEPT !.ok = TRUE],
                        IF p.ok THEN CacheDelByTag(cache, "ideas") ELSE cache,
                        p.upd)

(***************************************************************************)
(* BlogPostService.publishPost(postId)                                     *)
(***************************************************************************)
\* the post at hand: getIdeaByPostId reads the post document
PublishPostReadIdeaId(c, p, m) ==
  /\ Resume(c, [p EXCEPT !.pc = "pp_idea",
                         !.ideaId = IdeaIdOf(DocGet(posts, p.postId))])
  /\ cache' = m
  /\ UNCHANGED <<posts, ideas>>

\* the idea at hand: the status check, then updateIdea(idea.id, USED)
PublishPostCheck(c, p, m) ==
  IF p.post[1].status # "APPROVED" /\ p.post[1].status # "SCHEDULED"
  THEN /\ Resume(c, Throw(p, InvalidOperation))
       /\ cache' = m
       /\ UNCHANGED <<posts, ideas>>
  ELSE UpdateIdeaCall(c, p, m, "pp_used")

PublishPostUsed(c) ==
  /\ At(c, "pp_used")
  /\ UpdateIdeaWrite(c, [status |-> "USED"], "pp_used_upd")

PublishPostUsedUpd(c) ==
  /\ At(c, "pp_used_upd")
  /\ UpdateIdeaReread(c, "pp_used_done")

(***************************************************************************)
(* BlogPostService.deletePost(postId)                                      *)
(***************************************************************************)
\* the post at hand: the PUBLISHED check, then doc(postId).delete()
DeletePostMain(c, p, m) ==
  IF p.post[1].status = "PUBLISHED"
  THEN /\ Resume(c, Throw(p, DeletePublished))
       /\ cache' = m
       /\ UNCHANGED <<posts, ideas>>
  ELSE /\ posts' = DocDelete(posts, p.postId)
       /\ Resume(c, [p EXCEPT !.pc = "dp_deleted"])
       /\ cache' = m
       /\ UNCHANGED ideas

DeletePostDeleted(c) ==
  LET p == proc[c]
  IN  /\ At(c, "dp_deleted")
      /\ cache' = CacheDel(CacheDelByTag(cache, "posts"), PostKey(p.postId))
      /\ Resume(c, Return(p, Null))
      /\ UNCHANGED <<posts, ideas>>

(***************************************************************************)
(* BlogPostService.getPostById(postId), called by GET /posts/:id           *)
(***************************************************************************)
GetPostByIdReturn(c, p, m) ==
  /\ Resume(c, Return(p, p.post))
  /\ cache' = m
  /\ UNCHANGED <<posts, ideas>>

(***************************************************************************)
(* BlogPostService.getPostById and getIdeaByPostId, as the methods above  *)
(* call them.  The code that runs once the post (the idea) is at hand is  *)
(* that of the calling method, told by the await it resumes from; it is   *)
(* given the activation record and the cache as the read leaves them.     *)
(***************************************************************************)
PostAtHand(c, p, m, gotPc) ==
  CASE gotPc = "ups_got" -> UpdatePostStatusMain(c, p, m)
    [] gotPc = "pp_got" -> PublishPostReadIdeaId(c, p, m)
    [] gotPc = "dp_got" -> DeletePostMain(c, p, m)
    [] gotPc = "gp_got" -> GetPostByIdReturn(c, p, m)

\* cache.get; a hit returns the cached post, a miss reads the document.
GetPostByIdCall(c, p, m0, gotPc) ==
  LET key == PostKey(p.postId)
      cached == CacheGet(m0, now, key)
      m == CacheAfterGet(m0, now, key)
  IN  IF cached # Null
      THEN PostAtHand(c, [p EXCEPT !.post = cached], m, gotPc)
      ELSE /\ Resume(c, [p EXCEPT !.pc = gotPc,
                                  !.doc = DocGet(posts, p.postId)])
           /\ cache' = m
           /\ UNCHANGED <<posts, ideas>>

\* the document read: NotFoundError, or cache.set and return the post.
GetPostByIdGot(c) ==
  LET p == proc[c]
  IN  IF p.doc = Null
      THEN /\ Resume(c, Throw(p, PostNotFound))
           /\ UNCHANGED <<posts, ideas, cache>>
      ELSE PostAtHand(c, [p EXCEPT !.post = p.doc],
                      CacheSet(cache, now, PostKey(p.postId), p.doc[1],
                               CACHE_TTL, {"posts"}),
                      p.pc)

IdeaAtHand(c, p, m, gotPc) ==
  CASE gotPc = "up_idea_got" -> UpdatePostMain(c, p, m)
    [] gotPc = "pp_idea_got" -> PublishPostCheck(c, p, m)

\* !ideaId throws; getIdeaById: cache.get, a miss reads the idea document.
GetIdeaCall(c, gotPc) ==
  LET p == proc[c]
      key == IdeaKey(p.ideaId)
      cached == CacheGet(cache, now, key)
      m == CacheAfterGet(cache, now, key)
  IN  IF p.ideaId = ""
      THEN /\ Resume(c, Throw(p, NoIdeaId))
           /\ UNCHANGED <<posts, ideas, cache>>
      ELSE IF cached # Null
      THEN IdeaAtHand(c, p, m, gotPc)
      ELSE /\ Resume(c, [p EXCEPT !.pc = gotPc,
                                  !.doc = DocGet(ideas, p.ideaId)])
           /\ cache' = m
           /\ UNCHANGED <<posts, ideas>>

\* the idea document read: NotFoundError, or cache.set and return the idea.
GetIdeaGot(c) ==
  LET p == proc[c]
  IN  IF p.doc = Null
      THEN /\ Resume(c, Throw(p, IdeaNotFound))
           /\ UNCHANGED <<posts, ideas, cache>>
      ELSE IdeaAtHand(c, p,
                      CacheSet(cache, now, IdeaKey(p.ideaId), p.doc[1],
                               CACHE_TTL, {"ideas"}),
                      p.pc)

\* updatePost: getIdeaByPostId
UpdatePostIdea(c) ==
  /\ At(c, "up_idea")
  /\ GetIdeaCall(c, "up_idea_got")

UpdatePostIdeaGot(c) ==
  /\ At(c, "up_idea_got")
  /\ GetIdeaGot(c)

\* updatePostStatus: getPostById
UpdatePostStatusCall(c, p, m, statusUpdate) ==
  GetPostByIdCall(c, [p EXCEPT !.upd = statusUpdate], m, "ups_got")

UpdatePostStatusGot(c) ==
  /\ At(c, "ups_got")
  /\ GetPostByIdGot(c)

\* publishPost: getPostById, getIdeaByPostId
PublishPostGot(c) ==
  /\ At(c, "pp_got")
  /\ GetPostByIdGot(c)

PublishPostIdea(c) ==
  /\ At(c, "pp_idea")
  /\ GetIdeaCall(c, "pp_idea_got")

PublishPostIdeaGot(c) ==
  /\ At(c, "pp_idea_got")
  /\ GetIdeaGot(c)

\* updateIdea returns (cache.delByTag("ideas"));
\* updatePostStatus(postId, {status: 'PUBLISHED', ...})
PublishPostUsedDone(c) ==
  /\ At(c, "pp_used_done")
  /\ UpdatePostStatusCall(c, proc[c], CacheDelByTag(cache, "ideas"),
                          [status |-> "PUBLISHED", scheduledAt |-> Some(now)])

\* deletePost: getPostById
DeletePostGot(c) ==
  /\ At(c, "dp_got")
  /\ GetPostByIdGot(c)

\* GET /posts/:id
GetPostByIdRead(c) ==
  /\ At(c, "gp_got")
  /\ GetPostByIdGot(c)

(***************************************************************************)
(* BlogPostService.createPost(postData)                                    *)
(***************************************************************************)
\* createPost taking the status of the request.
NewPostWithRequestedStatus(id, postData) ==
  [id |-> id, status |-> postData.status, publishedAt |-> Null,
   scheduledAt |-> Null,
   ideaId |-> IF "ideaId" \in DOMAIN postData THEN postData.ideaId ELSE ""]

NewPost(id, postData) ==
  [id |-> id, status |-> "BRIEF", publishedAt |-> Null,
   scheduledAt |-> Null,
   ideaId |-> IF "ideaId" \in DOMAIN postData THEN postData.ideaId ELSE ""]

CreatePostSet(c) ==
  LET p == proc[c]
  IN  /\ At(c, "cp_set")
      /\ cache' = CacheDelByTag(cache, "posts")
      /\ Resume(c, Return(p, p.post))
      /\ UNCHANGED <<posts, ideas>>

(***************************************************************************)
(* BlogIdeaService.getAllIdeas / getUnusedIdeas / pickNextIdea             *)
(***************************************************************************)
priorityOrder == [pr \in Priority |->
  CASE pr = "high" -> 3 [] pr = "medium" -> 2 [] pr = "low" -> 1]

\* createdAt of a document read from the store is [ms, isDate]: the instant,
\* and whether the value is a Date (it has getTime) or the store's own
\* timestamp type (FirestoreTimestamp: it has none).
\* a.createdAt?.getTime?.() - b.createdAt?.getTime?.(); NaN counts as 0 in
\* Array.prototype.sort.
CreatedAtDiff(a, b) ==
  IF a.createdAt.isDate /\ b.createdAt.isDate
  THEN a.createdAt.ms - b.createdAt.ms
  ELSE 0

\* the comparator handed to unusedIdeas.sort
ComparePick(a, b) ==
  LET priorityDiff == priorityOrder[b.priority] - priorityOrder[a.priority]
  IN  IF priorityDiff # 0 THEN priorityDiff ELSE CreatedAtDiff(a, b)

\* Array.prototype.sort is stable: x goes after every element it does not
\* precede.
RECURSIVE InsertSorted(_, _)
InsertSorted(x, sorted) ==
  IF sorted = <<>> THEN <<x>>
  ELSE IF ComparePick(x, Head(sorted)) < 0 THEN <<x>> \o sorted
  ELSE <<Head(sorted)>> \o InsertSorted(x, Tail(sorted))

RECURSIVE SortIdeas(_)
SortIdeas(list) ==
  IF list = <<>> THEN <<>>
  ELSE LET n == Len(list)
       IN  InsertSorted(list[n], SortIdeas(SubSeq(list, 1, n - 1)))

\* db.collection('ideas').orderBy("createdAt", "desc").get(): every idea,
\* newest first.  filters.status is not applied.
RECURSIVE OrderByCreatedAtDesc(_, _)
OrderByCreatedAtDesc(coll, ids) ==
  IF ids = {} THEN <<>>
  ELSE LET newest == CHOOSE i \in ids :
                       \A j \in ids : coll[j].createdAt.ms <= coll[i].createdAt.ms
       IN  <<coll[newest]>> \o OrderByCreatedAtDesc(coll, ids \ {newest})

GetAllIdeas(coll) == OrderByCreatedAtDesc(coll, DOMAIN coll)

\* pickNextIdea returning the selected idea without marking it.
PickNextIdeaUnmarked(c, p, m) ==
  LET unusedIdeas == m[UnusedIdeasKey].data
      sorted == SortIdeas(unusedIdeas)
  IN  /\ Resume(c, IF Len(unusedIdeas) = 0 THEN Return(p, Null)
                   ELSE Return([p EXCEPT !.ideaId = sorted[1].id],
                               Some(sorted[1])))
      /\ cache' = m
      /\ UNCHANGED <<posts, ideas>>

\* the list at hand: null when it is empty, else sort it (in place: the
\* cached array is the one sorted), select the first and
\* updateIdeaStatus(selectedIdea.id, "PROCESSING")
PickNextIdeaMain(c, p, m) ==
  LET unusedIdeas == m[UnusedIdeasKey].data
      sorted == SortIdeas(unusedIdeas)
      selectedIdea == sorted[1]
      m2 == [m EXCEPT ![UnusedIdeasKey].data = sorted]
  IN  IF Len(unusedIdeas) = 0
      THEN /\ Resume(c, Return(p, Null))
           /\ cache' = m
           /\ UNCHANGED <<posts, ideas>>
      ELSE IF selectedIdea.id \notin DOMAIN ideas
      THEN /\ Resume(c, Throw([p EXCEPT !.ideaId = selectedIdea.id],
                              NoDocument))
           /\ cache' = m2
           /\ UNCHANGED <<posts, ideas>>
      ELSE /\ ideas' = DocUpdate(ideas, selectedIdea.id,
                                 [status |-> "PROCESSING"], IdeaFields)
           /\ Resume(c, [p EXCEPT !.pc = "pk_updated",
                                  !.ideaId = selectedIdea.id,
                                  !.ret = Some(selectedIdea)])
           /\ cache' = m2
           /\ UNCHANGED posts

\* getAllIdeas({status: "UNUSED"}): cache.get, a miss queries the store
PickNextIdeaCall(c, p) ==
  LET cached == CacheGet(cache, now, UnusedIdeasKey)
      m == CacheAfterGet(cache, now, UnusedIdeasKey)
  IN  IF cached # Null
      THEN PickNextIdeaMain(c, p, m)
      ELSE /\ Resume(c, [p EXCEPT !.pc = "pk_got",
                                  !.doc = Some(GetAllIdeas(ideas))])
           /\ cache' = m
           /\ UNCHANGED <<posts, ideas>>

PickNextIdeaGot(c) ==
  /\ At(c, "pk_got")
  /\ PickNextIdeaMain(c, proc[c],
                      CacheSet(cache, now, UnusedIdeasKey, proc[c].doc[1],
                               CACHE_TTL, {"ideas"}))

PickNextIdeaUpdated(c) ==
  /\ At(c, "pk_updated")
  /\ Resume(c, Return(proc[c], proc[c].ret))
  /\ UNCHANGED <<posts, ideas, cache>>

(***************************************************************************)
(* BlogIdeaService.deleteIdea(ideaId)                                      *)
(***************************************************************************)
DeleteIdeaGot(c) ==
  LET p == proc[c]
  IN  /\ At(c, "di_got")
      /\ IF p.doc = Null
         THEN /\ Resume(c, Throw(p, IdeaNotFound))
              /\ UNCHANGED <<posts, ideas, cache>>
         ELSE IF p.doc[1].status = "USED"
         THEN /\ Resume(c, Throw(p, DeleteUsed))
              /\ UNCHANGED <<posts, ideas, cache>>
         ELSE /\ ideas' = DocDelete(ideas, p.ideaId)
              /\ Resume(c, [p EXCEPT !.pc = "di_deleted"])
              /\ UNCHANGED <<posts, cache>>

DeleteIdeaDeleted(c) ==
  /\ At(c, "di_deleted")
  /\ cache' = CacheDelByTag(cache, "ideas")
  /\ Resume(c, Return(proc[c], Null))
  /\ UNCHANGED <<posts, ideas>>

(***************************************************************************)
(* BlogIdeaService.markIdeaAsUsed(ideaId), called by POST /ideas/:id/use   *)
(***************************************************************************)
MarkIdeaAsUsedGot(c) ==
  LET p == proc[c]
  IN  /\ At(c, "mu_got")
      /\ IF p.doc = Null
         THEN /\ Resume(c, Throw(p, IdeaNotFound))
              /\ UNCHANGED <<posts, ideas, cache>>
         ELSE IF p.doc[1].status = "USED"
         THEN /\ Resume(c, Throw(p, AlreadyUsed))
              /\ UNCHANGED <<posts, ideas, cache>>
         ELSE IF p.doc[1].status = "PROCESSING"
         THEN /\ Resume(c, Throw(p, AlreadyProcessing))
              /\ UNCHANGED <<posts, ideas, cache>>
         ELSE IF p.ideaId \notin DOMAIN ideas
         THEN /\ Resume(c, Throw(p, NoDocument))
              /\ UNCHANGED <<posts, ideas, cache>>
         ELSE /\ ideas' = DocUpdate(ideas, p.ideaId, [status |-> "USED"],
                                    IdeaFields)
              /\ Resume(c, [p EXCEPT !.pc = "mu_updated"])
              /\ UNCHANGED <<posts, cache>>

MarkIdeaAsUsedUpdated(c) ==
  /\ At(c, "mu_updated")
  /\ cache' = CacheDelByTag(cache, "ideas")
  /\ Resume(c, Return(proc[c], Null))
  /\ UNCHANGED <<posts, ideas>>

(***************************************************************************)
(* BlogIdeaService.resetIdea(ideaId), called by POST /ideas/:id/reset      *)
(***************************************************************************)
ResetIdeaGot(c) ==
  LET p == proc[c]
  IN  /\ At(c, "ri_got")
      /\ IF p.doc = Null
         THEN /\ Resume(c, Throw(p, IdeaNotFound))
              /\ UNCHANGED <<posts, ideas, cache>>
         ELSE IF p.ideaId \notin DOMAIN ideas
         THEN /\ Resume(c, Throw(p, NoDocument))
              /\ UNCHANGED <<posts, ideas, cache>>
         ELSE /\ ideas' = DocUpdate(ideas, p.ideaId, [used |-> FALSE],
                                    IdeaFields)
              /\ Resume(c, [p EXCEPT !.pc = "ri_updated"])
              /\ UNCHANGED <<posts, cache>>

ResetIdeaUpdated(c) ==
  /\ At(c, "ri_updated")
  /\ cache' = CacheDelByTag(cache, "ideas")
  /\ Resume(c, Return(proc[c], Null))
  /\ UNCHANGED <<posts, ideas>>

(***************************************************************************)
(* The calls: what the routes hand to the services.                        *)
(***************************************************************************)
NoStatus == "none"

\* POST /posts: createPostSchema always yields a status (default BRIEF).
CreatePostRequests ==
  [status : PostStatus, ideaId : IdeaIds \cup {""}]

\* PUT /posts/:id: updatePostSchema; status and outline are optional.
UpdateRequest(status, outline) ==
  (IF status = NoStatus THEN <<>> ELSE [status |-> status])
  @@ (IF outline THEN [outline |-> TRUE] ELSE <<>>)

UpdatePostRequests ==
  {UpdateRequest(s, o) : s \in PostStatus \cup {NoStatus}, o \in BOOLEAN}

\* POST /publish/webhook: updateData built from the body.
WebhookUpdateData(status, t) ==
  (IF status = NoStatus THEN <<>> ELSE [status |-> status])
  @@ (IF status = "PUBLISHED" THEN [publishedAt |-> Some(t)] ELSE <<>>)

CreatePost(c, postData) ==
  /\ IsIdle(c)
  /\ \E id \in PostIds :
       /\ FreshPostId(id)
       /\ posts' = DocSet(posts, id, NewPost(id, postData))
       /\ Resume(c, [Call("createPost", id, "", postData) EXCEPT
                       !.pc = "cp_set",
                       !.post = Some(NewPost(id, postData))])
  /\ UNCHANGED <<ideas, cache>>

\* A call that asks for REGENRATE is made while notifications are left.
HooksLeft(status) == status = "REGENRATE" => Len(hooks) < MaxHooks

UpdatePost(c, postId, updates) ==
  /\ IsIdle(c)
  /\ "status" \in DOMAIN updates => HooksLeft(updates.status)
  /\ UpdatePostCall(c, Call("updatePost", postId, "", updates), cache,
                    updates)

PublishWebhook(c, postId, status) ==
  /\ IsIdle(c)
  /\ HooksLeft(status)
  /\ UpdatePostCall(c, Call("webhook", postId, "", <<>>), cache,
                    WebhookUpdateData(status, now))

UpdatePostStatus(c, postId, status) ==
  /\ IsIdle(c)
  /\ HooksLeft(status)
  /\ UpdatePostStatusCall(c, Call("updatePostStatus", postId, "", <<>>),
                          cache, [status |-> status])

PublishPost(c, postId) ==
  /\ IsIdle(c)
  /\ GetPostByIdCall(c, Call("publishPost", postId, "", <<>>), cache,
                     "pp_got")

DeletePost(c, postId) ==
  /\ IsIdle(c)
  /\ GetPostByIdCall(c, Call("deletePost", postId, "", <<>>), cache,
                     "dp_got")

GetPostById(c, postId) ==
  /\ IsIdle(c)
  /\ GetPostByIdCall(c, Call("getPostById", postId, "", <<>>), cache,
                     "gp_got")

PickNextIdea(c) ==
  /\ IsIdle(c)
  /\ PickNextIdeaCall(c, Call("pickNextIdea", "", "", <<>>))

DeleteIdea(c, ideaId) ==
  /\ IsIdle(c)
  /\ Resume(c, [Call("deleteIdea", "", ideaId, <<>>) EXCEPT
                  !.pc = "di_got", !.doc = DocGet(ideas, ideaId)])
  /\ UNCHANGED <<posts, ideas, cache>>

MarkIdeaAsUsed(c, ideaId) ==
  /\ IsIdle(c)
  /\ Resume(c, [Call("markIdeaAsUsed", "", ideaId, <<>>) EXCEPT
                  !.pc = "mu_got", !.doc = DocGet(ideas, ideaId)])
  /\ UNCHANGED <<posts, ideas, cache>>

ResetIdea(c, ideaId) ==
  /\ IsIdle(c)
  /\ Resume(c, [Call("resetIdea", "", ideaId, <<>>) EXCEPT
                  !.pc = "ri_got", !.doc = DocGet(ideas, ideaId)])
  /\ UNCHANGED <<posts, ideas, cache>>

(***************************************************************************)
(* POST /api/publish/batch: publishPost for each of postIds in turn, the   *)
(* outcomes collected in results and errors.  The handler's locals are     *)
(* carried in the field batch of the activation record; tried records the  *)
(* ids publishPost has been called with.                                   *)
(***************************************************************************)
BatchRequired == "postIds array is required"

\* the next iteration of the for loop: publishPost(postId), up to its first
\* store call
BatchAttempt(c, b, m) ==
  LET postId == b.postIds[b.i]
      b2 == [b EXCEPT !.tried = Append(@, postId)]
  IN  GetPostByIdCall(c, [Call("publishPost", postId, "", <<>>) EXCEPT
                            !.batch = Some(b2)],
                      m, "pp_got")

BatchResponse(b) ==
  [success |-> Len(b.errors) = 0,
   published |-> b.results,
   errors |-> b.errors,
   summary |-> [total |-> Len(b.postIds),
                successful |-> Len(b.results),
                failed |-> Len(b.errors)]]

\* the batch giving up at the first id that fails
BatchCollectAbort(c) ==
  LET p == proc[c]
      b == p.batch[1]
      b2 == IF p.err = ""
            THEN [b EXCEPT !.i = @ + 1,
                           !.results = Append(@, [postId |-> p.postId,
                                                  success |-> TRUE,
                                                  post |-> p.ret])]
            ELSE [b EXCEPT !.i = @ + 1,
                           !.errors = Append(@, [postId |-> p.postId,
                                                 success |-> FALSE,
                                                 error |-> p.err])]
  IN  /\ At(c, "done")
      /\ p.op = "publishPost" /\ p.batch # Null
      /\ IF b2.i <= Len(b2.postIds) /\ p.err = ""
         THEN BatchAttempt(c, b2, cache)
         ELSE /\ Resume(c, [Idle EXCEPT !.op = "publishBatch",
                                        !.pc = "done",
                                        !.batch = Some(b2),
                                        !.ret = Some(BatchResponse(b2))])
              /\ UNCHANGED <<posts, ideas, cache>>

\* publishPost has returned or thrown: results.push or errors.push, then the
\* next iteration, or the response when postIds is exhausted
BatchCollect(c) ==
  LET p == proc[c]
      b == p.batch[1]
      b2 == IF p.err = ""
            THEN [b EXCEPT !.i = @ + 1,
                           !.results = Append(@, [postId |-> p.postId,
                                                  success |-> TRUE,
                                                  post |-> p.ret])]
            ELSE [b EXCEPT !.i = @ + 1,
                           !.errors = Append(@, [postId |-> p.postId,
                                                 success |-> FALSE,
                                                 error |-> p.err])]
  IN  /\ At(c, "done")
      /\ p.op = "publishPost" /\ p.batch # Null
      /\ IF b2.i <= Len(b2.postIds)
         THEN BatchAttempt(c, b2, cache)
         ELSE /\ Resume(c, [Idle EXCEPT !.op = "publishBatch",
                                        !.pc = "done",
                                        !.batch = Some(b2),
                                        !.ret = Some(BatchResponse(b2))])
              /\ UNCHANGED <<posts, ideas, cache>>

\* the request: 400 when postIds is empty, else the first iteration
PublishBatch(c, postIds) ==
  /\ IsIdle(c)
  /\ IF Len(postIds) = 0
     THEN /\ Resume(c, [Idle EXCEPT !.op = "publishBatch", !.pc = "done",
                                    !.err = BatchRequired])
          /\ UNCHANGED <<posts, ideas, cache>>
     ELSE BatchAttempt(c, [postIds |-> postIds, i |-> 1, tried |-> <<>>,
                           results |-> <<>>, errors |-> <<>>],
                       cache)

\* The caller takes the result; the activation record is gone.
Finish(c) ==
  /\ At(c, "done")
  /\ ~(proc[c].op = "publishPost" /\ proc[c].batch # Null)
  /\ Resume(c, Idle)
  /\ UNCHANGED <<posts, ideas, cache>>

WebhookOutcomes == {"ok", "http_error", "network_error"}

\* triggerRegenerateWebhook sending the request again when it has failed.
WebhookSettleRetry ==
  /\ \E i \in DOMAIN hooks, o \in WebhookOutcomes :
       /\ hooks[i].outcome = "pending"
       /\ hooks' = IF o = "ok" \/ Len(hooks) > MaxHooks
                   THEN [hooks EXCEPT ![i].outcome = o]
                   ELSE Append([hooks EXCEPT ![i].outcome = o],
                               [hooks[i] EXCEPT !.outcome = "pending"])
  /\ UNCHANGED <<posts, ideas, cache, now, proc, picked,
                 n8nRegenerateWebhookUrl, lastSet, cleanupInterval>>

\* The rest of triggerRegenerateWebhook: the response of fetch arrives (ok or
\* not) or fetch throws; the outcome is logged and the promise resolves to
\* true or false, which nobody reads.
WebhookSettle ==
  /\ \E i \in DOMAIN hooks, o \in WebhookOutcomes :
       /\ hooks[i].outcome = "pending"
       /\ hooks' = [hooks EXCEPT ![i].outcome = o]
  /\ UNCHANGED <<posts, ideas, cache, now, proc, picked,
                 n8nRegenerateWebhookUrl, lastSet, cleanupInterval>>

\* Time passes.
Tick ==
  /\ now < MaxClock
  /\ now' = now + 1
  /\ UNCHANGED <<posts, ideas, cache, proc, picked, hooks,
                 n8nRegenerateWebhookUrl, lastSet, cleanupInterval>>

(***************************************************************************)
(* InMemoryCache, called directly: set, get, has, del, delByTag, getOrSet  *)
(* and the sweep of the cleanup interval.  Values are opaque; null is the  *)
(* value that get also answers a miss with.                                *)
(***************************************************************************)
JsNull == "null"
FactoryFailed == "factory failed"

CacheKeys == {<<"key", "a">>, <<"key", "b">>}
CacheValues == {JsNull, "v"}
CacheTtls == {0, 1, 2}
CacheTagSets == SUBSET {"posts", "ideas"}
FactoryOutcomes == CacheValues \cup {FactoryFailed}

\* what get(key) returns: entry.data, or null
CacheGetValue(m, t, key) ==
  IF CacheGet(m, t, key) = Null THEN JsNull ELSE CacheGet(m, t, key)[1]

\* what has(key) returns
CacheHas(m, t, key) == key \in DOMAIN m /\ ~(t > m[key].expiresAt)

\* deletedCount of delByTag: one more for each entry whose tags include tag
RECURSIVE CacheDelByTagCount(_, _, _)
CacheDelByTagCount(m, keys, tag) ==
  IF keys = {} THEN 0
  ELSE LET k == CHOOSE j \in keys : TRUE
       IN  (IF tag \in m[k].tags THEN 1 ELSE 0)
           + CacheDelByTagCount(m, keys \ {k}, tag)

\* a sweep that also drops the entries expiring at this very instant
CacheCleanupInclusive(m, t) ==
  [k \in {j \in DOMAIN m : t < m[j].expiresAt} |-> m[k]]

\* the map cleanup() leaves
CacheCleanup(m, t) == [k \in {j \in DOMAIN m : ~(t > m[j].expiresAt)} |-> m[k]]

CacheCall(opName, args) == [Idle EXCEPT !.op = opName, !.upd = args]

set(c, key, value, ttl, tags) ==
  /\ IsIdle(c)
  /\ cache' = CacheSet(cache, now, key, value, ttl, tags)
  /\ Advance(c, Return(CacheCall("cache.set",
                                 [key |-> key, value |-> value, ttl |-> ttl,
                                  tags |-> tags]), Null),
             hooks,
             (key :> [value |-> value, ttl |-> ttl, at |-> now]) @@ lastSet)
  /\ UNCHANGED <<posts, ideas>>

get(c, key) ==
  /\ IsIdle(c)
  /\ cache' = CacheAfterGet(cache, now, key)
  /\ Resume(c, Return(CacheCall("cache.get", [key |-> key]),
                      Some(CacheGetValue(cache, now, key))))
  /\ UNCHANGED <<posts, ideas>>

has(c, key) ==
  /\ IsIdle(c)
  /\ cache' = CacheAfterGet(cache, now, key)
  /\ Resume(c, Return(CacheCall("cache.has", [key |-> key]),
                      Some(CacheHas(cache, now, key))))
  /\ UNCHANGED <<posts, ideas>>

del(c, key) ==
  /\ IsIdle(c)
  /\ cache' = CacheDel(cache, key)
  /\ Advance(c, Return(CacheCall("cache.del", [key |-> key]),
                       Some(key \in DOMAIN cache)),
             hooks, CacheRemove(lastSet, key))
  /\ UNCHANGED <<posts, ideas>>

delByTag(c, tag) ==
  /\ IsIdle(c)
  /\ cache' = CacheDelByTag(cache, tag)
  /\ Advance(c, Return(CacheCall("cache.delByTag", [tag |-> tag]),
                       Some(CacheDelByTagCount(cache, DOMAIN cache, tag))),
             hooks,
             [k \in {j \in DOMAIN lastSet :
                       ~(j \in DOMAIN cache /\ tag \in cache[j].tags)}
                |-> lastSet[k]])
  /\ UNCHANGED <<posts, ideas>>

\* getOrSet up to `await factory()`: the get, and on null the call of factory
getOrSet(c, key, ttl, tags) ==
  LET cached == CacheGetValue(cache, now, key)
      p == CacheCall("cache.getOrSet",
                     [key |-> key, ttl |-> ttl, tags |-> tags])
  IN  /\ IsIdle(c)
      /\ cache' = CacheAfterGet(cache, now, key)
      /\ IF cached # JsNull
         THEN Resume(c, Return(p, Some(cached)))
         ELSE Resume(c, [p EXCEPT !.pc = "gos_factory",
                                  !.factoryCalls = @ + 1])
      /\ UNCHANGED <<posts, ideas>>

\* factory has settled: its value is set and returned, its failure is the
\* failure of getOrSet
getOrSetSettled(c, outcome) ==
  LET p == proc[c]
  IN  /\ At(c, "gos_factory")
      /\ IF outcome = FactoryFailed
         THEN /\ Resume(c, Throw(p, FactoryFailed))
              /\ cache' = cache
         ELSE /\ cache' = CacheSet(cache, now, p.upd.key, outcome, p.upd.ttl,
                                   p.upd.tags)
              /\ Advance(c, Return(p, Some(outcome)), hooks,
                         (p.upd.key :> [value |-> outcome, ttl |-> p.upd.ttl,
                                        at |-> now]) @@ lastSet)
      /\ UNCHANGED <<posts, ideas>>

\* the cleanup interval fires
cleanup ==
  /\ cleanupInterval
  /\ cache' = CacheCleanup(cache, now)
  /\ UNCHANGED <<posts, ideas, now, proc, picked, hooks,
                 n8nRegenerateWebhookUrl, lastSet, cleanupInterval>>

\* destroy(): the interval is cleared and the map emptied
destroy ==
  /\ cleanupInterval' = FALSE
  /\ cache' = <<>>
  /\ lastSet' = <<>>
  /\ UNCHANGED <<posts, ideas, now, proc, picked, hooks,
                 n8nRegenerateWebhookUrl>>

\* A second passes.
TickSecond ==
  /\ now + 1000 <= MaxClock * 1000 + 1
  /\ now' = now + 1000
  /\ UNCHANGED <<posts, ideas, cache, proc, picked, hooks,
                 n8nRegenerateWebhookUrl, lastSet, cleanupInterval>>

(***************************************************************************)
(* Cadence utilities: computeNextSlots, getUpcomingSlots.  Instants are    *)
(* whole hours since the epoch.  A time zone is its standard offset and,   *)
(* if it has one in the days looked at, the instant at which daylight      *)
(* saving time begins (the offset is one hour more from then on); luxon    *)
(* does calendar arithmetic (startOf, set, plus days) on the local time    *)
(* and instant arithmetic on hours.                                        *)
(***************************************************************************)
HoursPerDay == 24

UTC == [name |-> "UTC", std |-> 0, dstFrom |-> Null]
Tokyo == [name |-> "Asia/Tokyo", std |-> 9, dstFrom |-> Null]
\* daylight saving time begins on day 3 at 02:00 local, 07:00 UTC
Toronto == [name |-> "America/Toronto", std |-> 0 - 5,
            dstFrom |-> Some(3 * HoursPerDay + 7)]
Zones == {UTC, Tokyo, Toronto}

\* the offset of zone z at instant t
ZoneOffset(z, t) ==
  IF z.dstFrom # Null /\ t >= z.dstFrom[1] THEN z.std + 1 ELSE z.std

\* the local time of instant t in zone z
ToLocal(z, t) == t + ZoneOffset(z, t)

\* the instant of local time l in zone z; a local time that the beginning
\* of daylight saving time skips is taken with the standard offset
FromLocal(z, l) ==
  IF z.dstFrom = Null THEN l - z.std
  ELSE IF l - z.std < z.dstFrom[1] THEN l - z.std
  ELSE IF l - z.std - 1 >= z.dstFrom[1] THEN l - z.std - 1
  ELSE l - z.std

\* dt.startOf('day').set({hour})
StartOfDayAtHour(z, t, hour) ==
  FromLocal(z, (ToLocal(z, t) \div HoursPerDay) * HoursPerDay + hour)

\* dt.plus({days})
PlusDays(z, t, days) == FromLocal(z, ToLocal(z, t) + days * HoursPerDay)

\* Math.floor(dt.toSeconds() / (24 * 60 * 60))
DaysSinceEpoch(t) == t \div HoursPerDay

computeNextSlots(nowHour, config) ==
  LET z == config.timezone
      today == StartOfDayAtHour(z, nowHour, config.publishHour)
      passed == IF today <= nowHour
                THEN PlusDays(z, today, config.intervalDays)
                ELSE today
      intervalOffset == DaysSinceEpoch(passed) % config.intervalDays
      nextPublish == IF intervalOffset # 0
                     THEN PlusDays(z, passed,
                                   config.intervalDays - intervalOffset)
                     ELSE passed
  IN  [scheduledAt |-> nextPublish,
       createAt |-> nextPublish - config.draftLeadHours]

\* the loop of getUpcomingSlots: i slots still to push, currentSlot at hand.
\* DateTime.fromMillis(...).plus({days}) is done in the default zone of the
\* process, systemZone.
RECURSIVE UpcomingLoop(_, _, _, _)
UpcomingLoop(currentSlot, config, i, systemZone) ==
  IF i = 0 THEN <<>>
  ELSE <<[publishAt |-> currentSlot.scheduledAt,
          createAt |-> currentSlot.createAt]>>
       \o UpcomingLoop(
            computeNextSlots(PlusDays(systemZone, currentSlot.scheduledAt,
                                      config.intervalDays), config),
            config, i - 1, systemZone)

\* the loop running while i <= count
getUpcomingSlotsOneMore(nowHour, config, count, systemZone) ==
  UpcomingLoop(computeNextSlots(nowHour, config), config, count + 1,
               systemZone)

\* nowHour is what DateTime.now() reads
getUpcomingSlots(nowHour, config, count, systemZone) ==
  UpcomingLoop(computeNextSlots(nowHour, config), config, count, systemZone)

\* Valid cadence configurations (validateCadenceConfig finds no error) and
\* the instants looked at.
CadenceConfigs ==
  [intervalDays : 1..3, publishHour : {0, 9, 19, 23},
   draftLeadHours : {1, 24, 48}, timezone : Zones]
Instants == HoursPerDay .. (MaxDay * HoursPerDay)

\* a call of a cadence utility with arguments args
CadenceCall(opName, args) == [Idle EXCEPT !.op = opName, !.upd = args]

\* DateTime.now().setZone(zone) throws for a zone that cannot be resolved
\* only when luxon's Settings.throwOnInvalid is set, and nothing sets it:
\* the DateTime returned is an invalid one.
ZoneNames == {z.name : z \in Zones}
SetZoneThrows(zone) == FALSE /\ zone \notin ZoneNames

\* a field that config does not have is <<>>, one it has is <<value>>
validateCadenceConfig(config) ==
  (IF config.intervalDays = Null \/ config.intervalDays[1] = 0
      \/ config.intervalDays[1] < 1
   THEN <<"Interval days must be at least 1">> ELSE <<>>)
  \o (IF config.publishHour = Null \/ config.publishHour[1] < 0
         \/ config.publishHour[1] > 23
      THEN <<"Publish hour must be between 0 and 23">> ELSE <<>>)
  \o (IF config.timezone = Null \/ config.timezone[1] = ""
      THEN <<"Timezone is required">>
      ELSE IF SetZoneThrows(config.timezone[1])
      THEN <<"Invalid timezone">> ELSE <<>>)
  \o (IF config.draftLeadHours = Null \/ config.draftLeadHours[1] = 0
         \/ config.draftLeadHours[1] < 1
      THEN <<"Draft lead hours must be at least 1">> ELSE <<>>)

\* Partial<CadenceConfig>: each field missing, invalid or valid
PartialConfigs ==
  [intervalDays : {Null} \cup {Some(n) : n \in (0 - 1)..2},
   publishHour : {Null} \cup {Some(n) : n \in {0 - 1, 0, 23, 24}},
   timezone : {Null} \cup {Some(z) : z \in ZoneNames \cup {"", "Mars/Phobos"}},
   draftLeadHours : {Null} \cup {Some(n) : n \in (0 - 1)..2}]

ValidateCadenceConfig(c) ==
  /\ IsIdle(c)
  /\ \E config \in PartialConfigs :
       Resume(c, Return(CadenceCall("validateCadenceConfig",
                                    [config |-> config]),
                        Some(validateCadenceConfig(config))))
  /\ UNCHANGED <<posts, ideas, cache>>

\* computeNextSlots called with any instant and valid configuration
ComputeNextSlots(c) ==
  /\ IsIdle(c)
  /\ \E nowHour \in Instants, config \in CadenceConfigs :
       Resume(c, Return(CadenceCall("computeNextSlots",
                                    [now |-> nowHour, config |-> config]),
                        Some(computeNextSlots(nowHour, config))))
  /\ UNCHANGED <<posts, ideas, cache>>

\* getUpcomingSlots called at any instant (DateTime.now()) with any valid
\* configuration and count, in a process of any default zone
GetUpcomingSlots(c) ==
  /\ IsIdle(c)
  /\ \E nowHour \in Instants, config \in CadenceConfigs,
        count \in 0..MaxCount, systemZone \in Zones :
       Resume(c, Return(CadenceCall("getUpcomingSlots",
                                    [now |-> nowHour, config |-> config,
                                     count |-> count, zone |-> systemZone]),
                        Some(getUpcomingSlots(nowHour, config, count,
                                              systemZone))))
  /\ UNCHANGED <<posts, ideas, cache>>

(***************************************************************************)
(* Specifications.                                                         *)
(***************************************************************************)
Idea(id, status, priority, ms, isDate) ==
  [id |-> id, status |-> status, priority |-> priority,
   createdAt |-> [ms |-> ms, isDate |-> isDate]]

\* The post service, one call after the other: the store holds idea i1 in
\* any status and no post; the cache is empty.
Init ==
  /\ posts = <<>>
  /\ \E st \in IdeaStatus :
       ideas = ("i1" :> Idea("i1", st, "medium", 0, FALSE))
  /\ cache = <<>>
  /\ now = 1
  /\ picked = {}
  /\ hooks = <<>>
  /\ lastSet = <<>>
  /\ cleanupInterval = TRUE
  /\ n8nRegenerateWebhookUrl = FALSE
  /\ proc = [c \in Callers |-> Idle]

\* The caller of the specifications in which calls do not overlap.
Caller == CHOOSE c \in Callers : \A d \in Callers : c <= d

Next ==
  \/ \E postData \in CreatePostRequests : CreatePost(Caller, postData)
  \/ \E id \in PostIds, u \in UpdatePostRequests : UpdatePost(Caller, id, u)
  \/ \E id \in PostIds, s \in PostStatus \cup {NoStatus} :
       PublishWebhook(Caller, id, s)
  \/ \E id \in PostIds, s \in PostStatus : UpdatePostStatus(Caller, id, s)
  \/ \E id \in PostIds : PublishPost(Caller, id)
  \/ \E id \in PostIds : DeletePost(Caller, id)
  \/ \E id \in IdeaIds : DeleteIdea(Caller, id)
  \/ CreatePostSet(Caller)
  \/ UpdatePostReadIdeaId(Caller)
  \/ UpdatePostIdea(Caller)
  \/ UpdatePostIdeaGot(Caller)
  \/ UpdatePostWritten(Caller)
  \/ UpdatePostAuto(Caller)
  \/ UpdatePostAutoIdea(Caller)
  \/ UpdatePostAutoUpd(Caller)
  \/ UpdatePostAutoDone(Caller)
  \/ UpdatePostReread(Caller)
  \/ UpdatePostUsed(Caller)
  \/ UpdatePostStatusGot(Caller)
  \/ UpdatePostStatusMark(Caller)
  \/ UpdatePostStatusMarked(Caller)
  \/ PublishPostGot(Caller)
  \/ PublishPostIdea(Caller)
  \/ PublishPostIdeaGot(Caller)
  \/ PublishPostUsed(Caller)
  \/ PublishPostUsedUpd(Caller)
  \/ PublishPostUsedDone(Caller)
  \/ DeletePostGot(Caller)
  \/ DeletePostDeleted(Caller)
  \/ DeleteIdeaGot(Caller)
  \/ DeleteIdeaDeleted(Caller)
  \/ Finish(Caller)
  \/ Tick

Spec == Init /\ [][Next]_vars

\* The idea service, one call after the other: the store holds i1, or i1
\* and the younger i2, in any status and priority; createdAt comes back
\* from the store as a Date or as the store's timestamp.
InitIdeas ==
  /\ posts = <<>>
  /\ \E s1, s2 \in IdeaStatus, p1, p2 \in Priority, isDate \in BOOLEAN,
        both \in BOOLEAN :
       ideas = ("i1" :> Idea("i1", s1, p1, 0, isDate))
               @@ (IF both THEN "i2" :> Idea("i2", s2, p2, 1, isDate)
                           ELSE <<>>)
  /\ cache = <<>>
  /\ now = 1
  /\ picked = {}
  /\ hooks = <<>>
  /\ lastSet = <<>>
  /\ cleanupInterval = TRUE
  /\ n8nRegenerateWebhookUrl = FALSE
  /\ proc = [c \in Callers |-> Idle]

NextIdeas ==
  \/ PickNextIdea(Caller)
  \/ \E id \in IdeaIds : DeleteIdea(Caller, id)
  \/ \E id \in IdeaIds : MarkIdeaAsUsed(Caller, id)
  \/ PickNextIdeaGot(Caller)
  \/ PickNextIdeaUpdated(Caller)
  \/ DeleteIdeaGot(Caller)
  \/ DeleteIdeaDeleted(Caller)
  \/ MarkIdeaAsUsedGot(Caller)
  \/ MarkIdeaAsUsedUpdated(Caller)
  \/ \E id \in IdeaIds : ResetIdea(Caller, id)
  \/ ResetIdeaGot(Caller)
  \/ ResetIdeaUpdated(Caller)
  \/ Finish(Caller)
  \/ Tick

SpecIdeas == InitIdeas /\ [][NextIdeas]_vars

\* Overlapping calls on one approved post and its idea, which is in any
\* status: reads, publishes and deletes by every caller, their steps
\* interleaved in any order.
InitRace ==
  /\ posts = ("p1" :> [id |-> "p1", status |-> "APPROVED",
                       publishedAt |-> Null, scheduledAt |-> Null,
                       ideaId |-> "i1"])
  /\ \E st \in IdeaStatus :
       ideas = ("i1" :> Idea("i1", st, "medium", 0, FALSE))
  /\ cache = <<>>
  /\ now = 1
  /\ picked = {}
  /\ hooks = <<>>
  /\ lastSet = <<>>
  /\ cleanupInterval = TRUE
  /\ n8nRegenerateWebhookUrl = FALSE
  /\ proc = [c \in Callers |-> Idle]

NextRace ==
  \/ \E c \in Callers, id \in PostIds : GetPostById(c, id)
  \/ \E c \in Callers, id \in PostIds : PublishPost(c, id)
  \/ \E c \in Callers, id \in PostIds : UpdatePostStatus(c, id, "PUBLISHED")
  \/ \E c \in Callers, id \in PostIds : DeletePost(c, id)
  \/ \E c \in Callers : DeleteIdea(c, "i1")
  \/ \E c \in Callers : GetPostByIdRead(c)
  \/ \E c \in Callers : UpdatePostReadIdeaId(c)
  \/ \E c \in Callers : UpdatePostIdea(c)
  \/ \E c \in Callers : UpdatePostIdeaGot(c)
  \/ \E c \in Callers : UpdatePostWritten(c)
  \/ \E c \in Callers : UpdatePostReread(c)
  \/ \E c \in Callers : UpdatePostUsed(c)
  \/ \E c \in Callers : UpdatePostStatusGot(c)
  \/ \E c \in Callers : UpdatePostStatusMark(c)
  \/ \E c \in Callers : UpdatePostStatusMarked(c)
  \/ \E c \in Callers : PublishPostGot(c)
  \/ \E c \in Callers : PublishPostIdea(c)
  \/ \E c \in Callers : PublishPostIdeaGot(c)
  \/ \E c \in Callers : PublishPostUsed(c)
  \/ \E c \in Callers : PublishPostUsedUpd(c)
  \/ \E c \in Callers : PublishPostUsedDone(c)
  \/ \E c \in Callers : DeletePostGot(c)
  \/ \E c \in Callers : DeletePostDeleted(c)
  \/ \E c \in Callers : DeleteIdeaGot(c)
  \/ \E c \in Callers : DeleteIdeaDeleted(c)
  \/ \E c \in Callers : Finish(c)

SpecRace == InitRace /\ [][NextRace]_vars

\* Overlapping lifecycle operations on one post, one operation for each
\* caller: updatePostStatus to PUBLISHED and to REGENRATE, and publishPost,
\* their steps interleaved in any order.  The post is APPROVED and has never been
\* published, or it is PUBLISHED (its idea USED); no operation approves it.
InitLifecycleRace ==
  /\ \E published \in BOOLEAN :
       /\ posts = ("p1" :> [id |-> "p1",
                            status |-> IF published THEN "PUBLISHED"
                                       ELSE "APPROVED",
                            publishedAt |-> IF published THEN Some(0)
                                            ELSE Null,
                            scheduledAt |-> Null, ideaId |-> "i1"])
       /\ ideas = ("i1" :> Idea("i1", IF published THEN "USED"
                                      ELSE "UNUSED", "medium", 0, FALSE))
  /\ cache = <<>>
  /\ now = 1
  /\ picked = {}
  /\ hooks = <<>>
  /\ lastSet = <<>>
  /\ cleanupInterval = TRUE
  /\ n8nRegenerateWebhookUrl = FALSE
  /\ proc = [c \in Callers |-> Idle]

NextLifecycleRace ==
  \/ \E c \in Callers, id \in PostIds, s \in {"PUBLISHED", "REGENRATE"} :
       UpdatePostStatus(c, id, s)
  \/ \E c \in Callers, id \in PostIds : PublishPost(c, id)
  \/ \E c \in Callers : UpdatePostReadIdeaId(c)
  \/ \E c \in Callers : UpdatePostIdea(c)
  \/ \E c \in Callers : UpdatePostIdeaGot(c)
  \/ \E c \in Callers : UpdatePostWritten(c)
  \/ \E c \in Callers : UpdatePostReread(c)
  \/ \E c \in Callers : UpdatePostUsed(c)
  \/ \E c \in Callers : UpdatePostStatusGot(c)
  \/ \E c \in Callers : UpdatePostStatusMark(c)
  \/ \E c \in Callers : UpdatePostStatusMarked(c)
  \/ \E c \in Callers : PublishPostGot(c)
  \/ \E c \in Callers : PublishPostIdea(c)
  \/ \E c \in Callers : PublishPostIdeaGot(c)
  \/ \E c \in Callers : PublishPostUsed(c)
  \/ \E c \in Callers : PublishPostUsedUpd(c)
  \/ \E c \in Callers : PublishPostUsedDone(c)

SpecLifecycleRace == InitLifecycleRace /\ [][NextLifecycleRace]_vars

\* Overlapping pickNextIdea calls: the store holds i1, or i1 and the younger
\* i2, all UNUSED and never picked; the cache is empty.
InitPickRace ==
  /\ posts = <<>>
  /\ \E p1, p2 \in Priority, both \in BOOLEAN :
       ideas = ("i1" :> Idea("i1", "UNUSED", p1, 0, TRUE))
               @@ (IF both THEN "i2" :> Idea("i2", "UNUSED", p2, 1, TRUE)
                           ELSE <<>>)
  /\ cache = <<>>
  /\ now = 1
  /\ picked = {}
  /\ hooks = <<>>
  /\ lastSet = <<>>
  /\ cleanupInterval = TRUE
  /\ n8nRegenerateWebhookUrl = FALSE
  /\ proc = [c \in Callers |-> Idle]

NextPickRace ==
  \/ \E c \in Callers : PickNextIdea(c)
  \/ \E c \in Callers : PickNextIdeaGot(c)
  \/ \E c \in Callers : PickNextIdeaUpdated(c)
  \/ \E c \in Callers : Finish(c)
  \/ Tick

SpecPickRace == InitPickRace /\ [][NextPickRace]_vars

\* Status updates and the regenerate webhook: the store holds post p1 in any
\* status and its idea i1; the webhook URL is configured or not.
InitHooks ==
  /\ \E st \in PostStatus :
       posts = ("p1" :> [id |-> "p1", status |-> st, ideaId |-> "i1",
                         scheduledAt |-> Null,
                         publishedAt |-> IF st = "PUBLISHED" THEN Some(0)
                                         ELSE Null])
  /\ ideas = ("i1" :> Idea("i1", "UNUSED", "medium", 0, TRUE))
  /\ cache = <<>>
  /\ now = 1
  /\ picked = {}
  /\ hooks = <<>>
  /\ lastSet = <<>>
  /\ cleanupInterval = TRUE
  /\ n8nRegenerateWebhookUrl \in BOOLEAN
  /\ proc = [c \in Callers |-> Idle]

NextHooks ==
  \/ \E id \in PostIds, u \in UpdatePostRequests : UpdatePost(Caller, id, u)
  \/ \E id \in PostIds, s \in PostStatus : UpdatePostStatus(Caller, id, s)
  \/ UpdatePostReadIdeaId(Caller)
  \/ UpdatePostIdea(Caller)
  \/ UpdatePostIdeaGot(Caller)
  \/ UpdatePostWritten(Caller)
  \/ UpdatePostAuto(Caller)
  \/ UpdatePostAutoIdea(Caller)
  \/ UpdatePostAutoUpd(Caller)
  \/ UpdatePostAutoDone(Caller)
  \/ UpdatePostReread(Caller)
  \/ UpdatePostUsed(Caller)
  \/ UpdatePostStatusGot(Caller)
  \/ UpdatePostStatusMark(Caller)
  \/ UpdatePostStatusMarked(Caller)
  \/ WebhookSettle
  \/ Finish(Caller)

SpecHooks == InitHooks /\ [][NextHooks]_vars

\* Batch publish: the store holds p1 and p2, each publishable or not, and
\* their ideas; p3 is not stored.  A batch names up to MaxBatch of them.
BatchIds == {"p1", "p2", "p3"}
BatchRequests == UNION {[1..n -> BatchIds] : n \in 0..MaxBatch}

InitBatch ==
  /\ \E s1 \in {"APPROVED", "DRAFT"}, s2 \in {"SCHEDULED", "NEEDS_REVIEW"} :
       posts = ("p1" :> [id |-> "p1", status |-> s1, ideaId |-> "i1",
                         publishedAt |-> Null, scheduledAt |-> Null])
               @@ ("p2" :> [id |-> "p2", status |-> s2, ideaId |-> "i2",
                            publishedAt |-> Null, scheduledAt |-> Null])
  /\ ideas = ("i1" :> Idea("i1", "PROCESSING", "medium", 0, TRUE))
             @@ ("i2" :> Idea("i2", "PROCESSING", "medium", 1, TRUE))
  /\ cache = <<>>
  /\ now = 1
  /\ picked = {}
  /\ hooks = <<>>
  /\ lastSet = <<>>
  /\ cleanupInterval = TRUE
  /\ n8nRegenerateWebhookUrl = FALSE
  /\ proc = [c \in Callers |-> Idle]

NextBatch ==
  \/ \E postIds \in BatchRequests : PublishBatch(Caller, postIds)
  \/ PublishPostGot(Caller)
  \/ PublishPostIdea(Caller)
  \/ PublishPostIdeaGot(Caller)
  \/ PublishPostUsed(Caller)
  \/ PublishPostUsedUpd(Caller)
  \/ PublishPostUsedDone(Caller)
  \/ UpdatePostStatusMark(Caller)
  \/ UpdatePostReadIdeaId(Caller)
  \/ UpdatePostIdea(Caller)
  \/ UpdatePostIdeaGot(Caller)
  \/ UpdatePostWritten(Caller)
  \/ UpdatePostReread(Caller)
  \/ UpdatePostUsed(Caller)
  \/ BatchCollect(Caller)
  \/ Finish(Caller)

SpecBatch == InitBatch /\ [][NextBatch]_vars

\* The cache on its own, one call after the other: it starts empty.
InitCache ==
  /\ posts = <<>>
  /\ ideas = <<>>
  /\ cache = <<>>
  /\ now = 1
  /\ picked = {}
  /\ hooks = <<>>
  /\ lastSet = <<>>
  /\ cleanupInterval = TRUE
  /\ n8nRegenerateWebhookUrl = FALSE
  /\ proc = [c \in Callers |-> Idle]

NextCache ==
  \/ \E key \in CacheKeys, value \in CacheValues, ttl \in CacheTtls,
        tags \in CacheTagSets : set(Caller, key, value, ttl, tags)
  \/ \E key \in CacheKeys : get(Caller, key)
  \/ \E key \in CacheKeys : has(Caller, key)
  \/ \E key \in CacheKeys : del(Caller, key)
  \/ \E tag \in {"posts", "ideas"} : delByTag(Caller, tag)
  \/ \E key \in CacheKeys, ttl \in CacheTtls, tags \in CacheTagSets :
       getOrSet(Caller, key, ttl, tags)
  \/ \E outcome \in FactoryOutcomes : getOrSetSettled(Caller, outcome)
  \/ cleanup
  \/ Finish(Caller)
  \/ TickSecond

SpecCache == InitCache /\ [][NextCache]_vars

\* The cache with its sweep and destroy().  An interval that is set fires
\* again and again, so a sweep that would remove something is not put off
\* for ever.
NextSweep ==
  \/ \E key \in CacheKeys, value \in CacheValues, ttl \in CacheTtls,
        tags \in CacheTagSets : set(Caller, key, value, ttl, tags)
  \/ \E key \in CacheKeys : get(Caller, key)
  \/ \E key \in CacheKeys : del(Caller, key)
  \/ cleanup
  \/ destroy
  \/ Finish(Caller)
  \/ TickSecond

SpecSweep == InitCache /\ [][NextSweep]_vars /\ WF_vars(cleanup)

\* The cadence utilities, called with any instant and valid configuration.
NextCadence ==
  \/ ComputeNextSlots(Caller)
  \/ GetUpcomingSlots(Caller)
  \/ ValidateCadenceConfig(Caller)
  \/ Finish(Caller)

SpecCadence == InitCache /\ [][NextCadence]_vars

(***************************************************************************)
(* Properties of the post service, calls not overlapping (Spec).          *)
(***************************************************************************)
\* The operation of Caller, and the store as it was when it was called.
Op == proc[Caller]
Settled(opName) == Op.op = opName /\ Op.pc = "done"
Before == Op.pre[1]
StoreUnchanged == posts = Before.posts /\ ideas = Before.ideas
CalledOnPost == Op.postId \in DOMAIN Before.posts
StatusBefore == Before.posts[Op.postId].status

\* C1, for posts whose idea is stored: a status change (updatePostStatus,
\* or updatePost carrying a status) whose pair (stored status, requested
\* status) is not in the transition table fails with InvalidTransition and
\* leaves the post and the ideas as they were.
C1_IllegalTransitionRejected ==
  ( /\ Settled("updatePostStatus") \/ Settled("updatePost")
    /\ CalledOnPost
    /\ Before.posts[Op.postId].ideaId \in DOMAIN Before.ideas
    /\ "status" \in DOMAIN Op.upd
    /\ Op.upd.status \notin validTransitions[StatusBefore] )
  => (Op.err = InvalidTransition /\ StoreUnchanged)

\* C2: createPost stores the new post with status BRIEF and publishedAt
\* null, whatever status the request carries, and returns it.
C2_CreatedPostIsBrief ==
  (Op.op = "createPost" /\ Op.pc \in {"cp_set", "done"})
  => /\ Op.err = ""
     /\ Op.postId \in DOMAIN posts
     /\ posts[Op.postId].status = "BRIEF"
     /\ posts[Op.postId].publishedAt = Null
     /\ Op.pc = "done" => Op.ret = Some(posts[Op.postId])

C2_Witness ==
  /\ Settled("createPost")
  /\ Op.upd.status = "PUBLISHED"
  /\ Op.postId \in DOMAIN posts

\* C3: publishPost on a post whose stored status is neither APPROVED nor
\* SCHEDULED fails with InvalidOperation and changes neither the post nor
\* the idea.
C3_PublishRejected ==
  ( /\ Settled("publishPost")
    /\ CalledOnPost
    /\ StatusBefore \notin {"APPROVED", "SCHEDULED"} )
  => (Op.err = InvalidOperation /\ StoreUnchanged)

\* C4: publishPost on a post whose stored status is APPROVED or SCHEDULED
\* succeeds; the post is then PUBLISHED with publishedAt set and its idea,
\* whatever its status was, is USED.
C4_PublishSucceeds ==
  ( /\ Settled("publishPost")
    /\ CalledOnPost
    /\ StatusBefore \in {"APPROVED", "SCHEDULED"} )
  => /\ Op.err = ""
     /\ Op.postId \in DOMAIN posts
     /\ posts[Op.postId].status = "PUBLISHED"
     /\ posts[Op.postId].publishedAt # Null
     /\ LET ideaId == Before.posts[Op.postId].ideaId
        IN  ideaId \in DOMAIN Before.ideas
              => ideaId \in DOMAIN ideas /\ ideas[ideaId].status = "USED"

\* C5: for every stored post, publishedAt is set if and only if the status
\* is PUBLISHED.
C5_PublishedAtIffPublished ==
  Quiescent =>
    \A id \in DOMAIN posts :
      (posts[id].publishedAt # Null) <=> (posts[id].status = "PUBLISHED")

\* C6: once publishedAt of a post is set, no step changes it.
C6_PublishedAtSetOnce ==
  [][\A id \in (DOMAIN posts) \cap (DOMAIN posts') :
       posts[id].publishedAt # Null
         => posts'[id].publishedAt = posts[id].publishedAt]_vars

\* C7: deletePost on a PUBLISHED post and deleteIdea on a USED idea fail with
\* Conflict and leave the document stored; in every other status the delete
\* succeeds and the document is gone.
C7_DeleteFailsWithConflict ==
  /\ (Settled("deletePost") /\ CalledOnPost)
       => IF StatusBefore = "PUBLISHED"
          THEN /\ Op.err # ""
               /\ ErrorCode(Op.err) = Conflict
               /\ StoreUnchanged
          ELSE Op.err = "" /\ Op.postId \notin DOMAIN posts
  /\ (Settled("deleteIdea") /\ Op.ideaId \in DOMAIN Before.ideas)
       => IF Before.ideas[Op.ideaId].status = "USED"
          THEN /\ Op.err # ""
               /\ ErrorCode(Op.err) = Conflict
               /\ StoreUnchanged
          ELSE Op.err = "" /\ Op.ideaId \notin DOMAIN ideas

\* What the deletes do instead: the guarded delete fails with the
\* ValidationError "Cannot delete a published post" / "Cannot delete an
\* idea that has been used", and the document stays.
DeleteGuards ==
  /\ (Settled("deletePost") /\ CalledOnPost)
       => IF StatusBefore = "PUBLISHED"
          THEN Op.err = DeletePublished /\ StoreUnchanged
          ELSE Op.err = "" /\ Op.postId \notin DOMAIN posts
  /\ (Settled("deleteIdea") /\ Op.ideaId \in DOMAIN Before.ideas)
       => IF Before.ideas[Op.ideaId].status = "USED"
          THEN Op.err = DeleteUsed /\ StoreUnchanged
          ELSE Op.err = "" /\ Op.ideaId \notin DOMAIN ideas

(***************************************************************************)
(* Properties of overlapping calls (SpecRace).                             *)
(***************************************************************************)
\* C8 (the half about posts; the half about ideas reads the same with ideas
\* and USED): no step deletes a post whose stored status is PUBLISHED,
\* however the steps of overlapping calls are interleaved.
C8_NoDeleteOfPublished ==
  [][\A id \in (DOMAIN posts) \ (DOMAIN posts') :
       posts[id].status # "PUBLISHED"]_vars

(***************************************************************************)
(* Properties of pickNextIdea, calls not overlapping (SpecIdeas).          *)
(***************************************************************************)
UnusedBefore == {id \in DOMAIN Before.ideas : Before.ideas[id].status = "UNUSED"}

\* the UNUSED idea of highest priority and, among those, the oldest
BestUnused ==
  CHOOSE id \in UnusedBefore :
    \A other \in UnusedBefore \ {id} :
      \/ priorityOrder[Before.ideas[id].priority]
           > priorityOrder[Before.ideas[other].priority]
      \/ /\ Before.ideas[id].priority = Before.ideas[other].priority
         /\ Before.ideas[id].createdAt.ms < Before.ideas[other].createdAt.ms

\* C9: pickNextIdea returns only an idea whose stored status was UNUSED, and
\* where the store holds no UNUSED idea it returns null and changes nothing.
C9_PicksOnlyUnused ==
  Settled("pickNextIdea")
  => /\ Op.ret # Null => Op.ret[1].id \in UnusedBefore
     /\ UnusedBefore = {}
          => (Op.err = "" /\ Op.ret = Null /\ StoreUnchanged)

\* C10, for ideas whose createdAt comes back from the store as a Date:
\* where an UNUSED idea exists, pickNextIdea returns the UNUSED idea of
\* highest priority and, among those, the oldest; that idea is then
\* PROCESSING and every other idea is as it was.
C10_PicksBestUnused ==
  ( /\ Settled("pickNextIdea")
    /\ UnusedBefore # {}
    /\ \A id \in DOMAIN Before.ideas : Before.ideas[id].createdAt.isDate )
  => /\ Op.err = ""
     /\ Op.ret # Null
     /\ Op.ret[1].id = BestUnused
     /\ DOMAIN ideas = DOMAIN Before.ideas
     /\ ideas[BestUnused].status = "PROCESSING"
     /\ \A id \in DOMAIN ideas \ {BestUnused} : ideas[id] = Before.ideas[id]

(***************************************************************************)
(* Properties of PROCESSING as a hold (SpecIdeas, SpecPickRace).           *)
(***************************************************************************)
\* C11: an idea that a completed pickNextIdea call returned is not returned
\* by a pickNextIdea call that starts afterwards, unless its stored status
\* was UNUSED again when that call started.
C11_PickedIsHeld ==
  [][\A x \in picked :
       ~ /\ Op'.op = "pickNextIdea"
         /\ Op'.pc = "done"
         /\ Op.pc # "done"
         /\ Op'.ret # Null
         /\ Op'.ret[1].id = x
         /\ x \in DOMAIN Op'.pre[1].ideas
         /\ Op'.pre[1].ideas[x].status # "UNUSED"]_vars

\* a pickNextIdea call of caller c that has returned an idea
Picked(c) ==
  /\ proc[c].op = "pickNextIdea"
  /\ proc[c].pc = "done"
  /\ proc[c].ret # Null

\* C12, for calls that both read the idea list from the store: two
\* overlapping pickNextIdea calls never return the same idea.
C12_NoDoublePick ==
  \A c, d \in Callers :
    ( /\ c # d
      /\ Picked(c) /\ Picked(d)
      /\ proc[c].doc # Null /\ proc[d].doc # Null )
    => proc[c].ret[1].id # proc[d].ret[1].id

\* C12, as it holds: the hold is no more than the mark; the idea a
\* pickNextIdea call returns has been written PROCESSING when it returns.
C12_PickedIsMarked ==
  \A c \in Callers :
    Picked(c) => /\ proc[c].ret[1].id \in DOMAIN ideas
                 /\ ideas[proc[c].ret[1].id].status = "PROCESSING"

\* both calls read the list from the store before either wrote, and both
\* returned i1
C12_Witness ==
  \E c, d \in Callers :
    /\ c # d
    /\ Picked(c) /\ Picked(d)
    /\ proc[c].doc # Null /\ proc[d].doc # Null
    /\ proc[c].ret[1].id = "i1" /\ proc[d].ret[1].id = "i1"
    /\ ideas["i1"].status = "PROCESSING"

\* C13: USED is terminal: no step of pickNextIdea, markIdeaAsUsed or a post
\* operation changes the stored status of an idea that is USED.
C13_UsedIsTerminal ==
  [][\A i \in DOMAIN ideas \cap DOMAIN ideas' :
       ideas[i].status = "USED" => ideas'[i].status = "USED"]_vars

(***************************************************************************)
(* Properties of the USED propagation (Spec).                              *)
(***************************************************************************)
\* C14: publishPost, or updatePostStatus to PUBLISHED, on a post that may
\* legally become PUBLISHED and whose idea is not stored succeeds all the
\* same: no error reaches the caller and the post is PUBLISHED.
C14_UsedPropagationBestEffort ==
  ( /\ \/ Settled("publishPost") /\ CalledOnPost
            /\ StatusBefore \in {"APPROVED", "SCHEDULED"}
       \/ Settled("updatePostStatus") /\ CalledOnPost
            /\ Op.upd.status = "PUBLISHED"
            /\ "PUBLISHED" \in validTransitions[StatusBefore]
    /\ Before.posts[Op.postId].ideaId \notin DOMAIN Before.ideas )
  => /\ Op.err = ""
     /\ Op.postId \in DOMAIN posts
     /\ posts[Op.postId].status = "PUBLISHED"

(***************************************************************************)
(* Properties of the regenerate webhook (SpecHooks).                       *)
(***************************************************************************)
\* a step in which a request is sent to the webhook
Dispatched == Len(hooks') > Len(hooks)

\* C15: a request is sent to the regenerate webhook only by an operation
\* that moves a post into REGENRATE (it asked for REGENRATE, the post was in
\* another status when it was called, it has not failed) and only once its
\* write of the status is in the store.
C15_NotifiedOnEnteringRegenerate ==
  [][Dispatched =>
       /\ Op'.pc = "done" /\ Op'.err = ""
       /\ "status" \in DOMAIN Op'.upd /\ Op'.upd.status = "REGENRATE"
       /\ Op'.postId \in DOMAIN posts
       /\ posts[Op'.postId].status = "REGENRATE"
       /\ Op'.pre[1].posts[Op'.postId].status # "REGENRATE"]_vars

\* C16: the notification is fire-and-forget and at most once.  The operation
\* that asked for REGENRATE returns the updated post in the very step that
\* sends the request, its response pending, or sends nothing when no URL is
\* configured; it sends at most one request.  The settling of a request, ok
\* or failed, changes neither the store nor the operation's result, and
\* sends no other request.
C16_FireAndForgetAtMostOnce ==
  [][/\ Dispatched =>
          /\ Len(hooks') = Len(hooks) + 1
          /\ SubSeq(hooks', 1, Len(hooks)) = hooks
          /\ hooks'[Len(hooks')].outcome = "pending"
          /\ Op.pc # "done" /\ Op'.pc = "done"
     /\ ( /\ Op.pc # "done" /\ Op'.pc = "done" /\ Op'.err = ""
          /\ "status" \in DOMAIN Op'.upd /\ Op'.upd.status = "REGENRATE" )
        => /\ Op'.ret = Some(posts'[Op'.postId])
           /\ Len(hooks') = Len(hooks)
                            + (IF n8nRegenerateWebhookUrl THEN 1 ELSE 0)
     /\ (hooks' # hooks /\ ~Dispatched) =>
          /\ posts' = posts /\ ideas' = ideas /\ proc' = proc
          /\ Len(hooks') = Len(hooks)
          /\ \A i \in DOMAIN hooks :
               hooks[i].outcome # "pending" => hooks'[i] = hooks[i]]_vars

\* the request has failed after the operation returned the post in REGENRATE
C16_Witness ==
  /\ Settled("updatePostStatus")
  /\ Op.err = ""
  /\ Op.ret # Null /\ Op.ret[1].status = "REGENRATE"
  /\ posts[Op.postId].status = "REGENRATE"
  /\ Len(hooks) = 1
  /\ hooks[1].outcome \in {"http_error", "network_error"}

(***************************************************************************)
(* Properties of updatePost (Spec).                                        *)
(***************************************************************************)
\* updatePost, called on a stored post with an outline
OutlineSupplied ==
  /\ Settled("updatePost")
  /\ CalledOnPost
  /\ "outline" \in DOMAIN Op.upd

\* C17: updatePost with an outline on a post stored as BRIEF (and no status
\* that the transition table refuses) leaves the post stored as OUTLINE and
\* the flag isBriefCreated set on its idea; on a post in another status, an
\* outline alone changes neither the status of the post nor the ideas.
C17_OutlineAdvancesBrief ==
  /\ ( /\ OutlineSupplied
       /\ StatusBefore = "BRIEF"
       /\ "status" \in DOMAIN Op.upd
            => Op.upd.status \in validTransitions["BRIEF"] \cup {"BRIEF"} )
     => /\ Op.err = ""
        /\ posts[Op.postId].status = "OUTLINE"
        /\ LET ideaId == Before.posts[Op.postId].ideaId
           IN  ideaId \in DOMAIN Before.ideas
                 => /\ "isBriefCreated" \in DOMAIN ideas[ideaId]
                    /\ ideas[ideaId].isBriefCreated
  /\ ( /\ OutlineSupplied
       /\ StatusBefore # "BRIEF"
       /\ "status" \notin DOMAIN Op.upd )
     => /\ Op.err = ""
        /\ posts[Op.postId].status = StatusBefore
        /\ ideas = Before.ideas

\* What holds instead: the same, for the posts whose idea is stored.
OutlineAdvancesBriefWithIdea ==
  (OutlineSupplied /\ Before.posts[Op.postId].ideaId \in DOMAIN Before.ideas)
    => C17_OutlineAdvancesBrief

\* C18, for posts whose idea is stored: a request (updatePostStatus, or
\* updatePost carrying a status) for the status the post already has fails
\* with InvalidTransition and changes nothing, unless the status is
\* PUBLISHED: then it succeeds and the post stays as it was.
C18_SameStatusRejected ==
  ( /\ Settled("updatePostStatus") \/ Settled("updatePost")
    /\ CalledOnPost
    /\ Before.posts[Op.postId].ideaId \in DOMAIN Before.ideas
    /\ "status" \in DOMAIN Op.upd
    /\ Op.upd.status = StatusBefore )
  => IF StatusBefore = "PUBLISHED"
     THEN Op.err = "" /\ posts = Before.posts
     ELSE Op.err = InvalidTransition /\ StoreUnchanged

(***************************************************************************)
(* Properties of the batch publish (SpecBatch).                            *)
(***************************************************************************)
\* the number of entries of the list s that are about post id
CountOf(s, id) == Cardinality({k \in DOMAIN s : s[k].postId = id})

\* C19: when a batch of N ids has answered, publishPost has been called with
\* every id once, in the order of the request, whatever failed; each entry
\* of the request is in exactly one of published and errors (as many
\* entries for an id as the request has); and successful + failed = total
\* = N.
C19_BatchAttemptsEveryId ==
  (Settled("publishBatch") /\ Op.err = "") =>
    LET b == Op.batch[1]
        r == Op.ret[1]
        N == Len(b.postIds)
    IN  /\ N > 0
        /\ b.tried = b.postIds
        /\ \A id \in BatchIds :
             CountOf(r.published, id) + CountOf(r.errors, id)
               = Cardinality({k \in DOMAIN b.postIds : b.postIds[k] = id})
        /\ \A k \in DOMAIN r.published : r.published[k].success
        /\ \A k \in DOMAIN r.errors : ~r.errors[k].success
        /\ r.summary.total = N
        /\ r.summary.successful = Len(r.published)
        /\ r.summary.failed = Len(r.errors)
        /\ r.summary.successful + r.summary.failed = N

\* a batch whose first id failed and whose second id was published
C19_Witness ==
  /\ Settled("publishBatch")
  /\ Op.err = ""
  /\ Len(Op.batch[1].postIds) = 2
  /\ Len(Op.ret[1].errors) = 1
  /\ Len(Op.ret[1].published) = 1
  /\ Op.ret[1].errors[1].postId = Op.batch[1].postIds[1]
  /\ Op.ret[1].published[1].postId = Op.batch[1].postIds[2]
  /\ posts[Op.batch[1].postIds[2]].status = "PUBLISHED"

(***************************************************************************)
(* Properties of the cache (SpecIdeas, Spec).                              *)
(***************************************************************************)
\* the keys of the cache entries that carry the tag
Tagged(tag) == {k \in DOMAIN cache : tag \in cache[k].tags}

\* C20: when an operation that has changed a stored post returns, the cache
\* holds no entry tagged "posts"; when an operation that has changed a
\* stored idea returns (pickNextIdea among them), the cache holds no entry
\* tagged "ideas".
C20_ChangeInvalidatesCache ==
  (Op.pc = "done" /\ Op.pre # Null /\ Op.err = "") =>
    /\ posts # Before.posts => Tagged("posts") = {}
    /\ ideas # Before.ideas => Tagged("ideas") = {}

\* C21: when no operation is in flight, every unexpired cache entry
\* post:<id> holds the post as it is stored, and there is none for a post
\* that is not stored, however getPostById and the mutations were
\* interleaved.
C21_CachedPostIsStoredPost ==
  Quiescent =>
    \A id \in PostIds :
      (PostKey(id) \in DOMAIN cache /\ now <= cache[PostKey(id)].expiresAt)
        => /\ id \in DOMAIN posts
           /\ cache[PostKey(id)].data = posts[id]

(***************************************************************************)
(* Properties of InMemoryCache (SpecCache).                                *)
(***************************************************************************)
\* a step that is the call of the cache operation opName
CacheCalled(opName) == Op.op = "idle" /\ Op'.op = opName

\* C22: get(k), after set(k, v, {ttl: t}) at the instant at and no delete
\* of k since, returns v while the clock has not passed at + t seconds; once
\* it has, get(k) returns a miss and k is no longer in the map.
C22_SetGetRoundTrip ==
  [][(CacheCalled("cache.get") /\ Op'.upd.key \in DOMAIN lastSet) =>
       LET key == Op'.upd.key
           asked == lastSet[key]
       IN  IF now <= asked.at + asked.ttl * 1000
           THEN Op'.ret = Some(asked.value)
           ELSE Op'.ret = Some(JsNull) /\ key \notin DOMAIN cache']_vars

\* What holds instead: the same for every ttl but 0.
SetGetRoundTripPositiveTtl ==
  [][(CacheCalled("cache.get") /\ Op'.upd.key \in DOMAIN lastSet
        /\ lastSet[Op'.upd.key].ttl > 0) =>
       LET key == Op'.upd.key
           asked == lastSet[key]
       IN  IF now <= asked.at + asked.ttl * 1000
           THEN Op'.ret = Some(asked.value)
           ELSE Op'.ret = Some(JsNull) /\ key \notin DOMAIN cache']_vars

\* C23: delByTag(tag) removes the entries whose tags contain tag and no
\* other, leaves the entries that stay as they were, and returns the number
\* of entries it removed.
C23_DelByTagFrame ==
  [][CacheCalled("cache.delByTag") =>
       LET tag == Op'.upd.tag
           hit == {k \in DOMAIN cache : tag \in cache[k].tags}
       IN  /\ DOMAIN cache' = (DOMAIN cache) \ hit
           /\ \A k \in DOMAIN cache' : cache'[k] = cache[k]
           /\ Op'.ret = Some(Cardinality(hit))]_vars

\* delByTag("posts") has removed one entry and left one tagged only "ideas"
C23_Witness ==
  /\ Settled("cache.delByTag")
  /\ Op.upd.tag = "posts"
  /\ Op.ret = Some(1)
  /\ \E k \in DOMAIN cache : cache[k].tags = {"ideas"}

\* C24: getOrSet calls factory if and only if the key has no unexpired entry
\* at the call.  On a hit it returns the stored value, whatever it is, and
\* leaves the cache alone; on a miss it calls factory once, and when factory
\* has returned a value it stores it under the key with the options given
\* and returns it.
C24_FactoryOnlyOnMiss ==
  [][/\ CacheCalled("cache.getOrSet") =>
          LET key == Op'.upd.key
          IN  IF CacheHas(cache, now, key)
              THEN /\ Op'.pc = "done"
                   /\ Op'.ret = Some(cache[key].data)
                   /\ Op'.factoryCalls = 0
                   /\ cache' = cache
              ELSE Op'.factoryCalls = 1
     /\ (Op.pc = "gos_factory" /\ Op'.pc = "done" /\ Op'.err = "") =>
          LET key == Op.upd.key
          IN  /\ Op'.factoryCalls = 1
              /\ key \in DOMAIN cache'
              /\ Op'.ret = Some(cache'[key].data)
              /\ cache'[key].tags = Op.upd.tags]_vars

\* C25: no cache operation fails, getOrSet with a failing factory included.
C25_CacheNeverThrows ==
  (Op.pc = "done"
     /\ Op.op \in {"cache.set", "cache.get", "cache.has", "cache.del",
                   "cache.delByTag", "cache.getOrSet"})
    => Op.err = ""

(***************************************************************************)
(* Properties of the cadence utilities (SpecCadence).                      *)
(***************************************************************************)
Slots == Op.ret[1]
Config == Op.upd.config

\* the local hour of the day of instant t
LocalHour(z, t) == ToLocal(z, t) % HoursPerDay

\* instant t is a slot of the grid: publishHour local, on a day whose count
\* since the epoch is a multiple of intervalDays
OnGrid(config, t) ==
  /\ LocalHour(config.timezone, t) = config.publishHour
  /\ DaysSinceEpoch(t) % config.intervalDays = 0

\* C26: computeNextSlots returns a publishAt later than now, at publishHour
\* on a day whose count since the epoch is a multiple of intervalDays, and a
\* createAt draftLeadHours hours before it.
C26_SlotIsAlignedAndLater ==
  Settled("computeNextSlots") =>
    /\ Slots.scheduledAt > Op.upd.now
    /\ OnGrid(Config, Slots.scheduledAt)
    /\ Slots.createAt = Slots.scheduledAt - Config.draftLeadHours

\* C27: the publishAt that computeNextSlots returns is the earliest slot of
\* the grid after now: no slot of the grid lies after now and before it.
C27_EarliestSlot ==
  Settled("computeNextSlots") =>
    \A t \in (Op.upd.now + 1) .. (Slots.scheduledAt - 1) : ~OnGrid(Config, t)

\* C28: computeNextSlots called again with now = its createAt returns the
\* same publishAt or a later one.
C28_Realignment ==
  Settled("computeNextSlots") =>
    computeNextSlots(Slots.createAt, Config).scheduledAt >= Slots.scheduledAt

\* What holds of computeNextSlots instead of C26: the slot is aligned when
\* daylight saving time does not begin in the zone.
SlotIsAlignedWithoutDst ==
  Settled("computeNextSlots") /\ Config.timezone.dstFrom = Null =>
    /\ Slots.scheduledAt > Op.upd.now
    /\ OnGrid(Config, Slots.scheduledAt)
    /\ Slots.createAt = Slots.scheduledAt - Config.draftLeadHours

\* C29: getUpcomingSlots(config, count) returns count slots, for every
\* count from 0 on, and their publishAt values increase strictly.
C29_CountSlotsIncreasing ==
  Settled("getUpcomingSlots") =>
    /\ Len(Slots) = Op.upd.count
    /\ \A i \in 1..(Len(Slots) - 1) :
         Slots[i].publishAt < Slots[i + 1].publishAt

C29_Witness ==
  /\ Settled("getUpcomingSlots")
  /\ Op.upd.count >= 2
  /\ Len(Slots) = Op.upd.count
  /\ Slots[1].publishAt < Slots[2].publishAt

\* C30: two consecutive slots of getUpcomingSlots are intervalDays days
\* apart, one step of the grid and never two or more.
C30_SpacedByInterval ==
  Settled("getUpcomingSlots") =>
    \A i \in 1..(Len(Slots) - 1) :
      ToLocal(Config.timezone, Slots[i + 1].publishAt)
        - ToLocal(Config.timezone, Slots[i].publishAt)
        = Config.intervalDays * HoursPerDay

\* What holds instead of C28: the publishAt is not earlier when the draft
\* lead is shorter than the interval and daylight saving time does not begin
\* in the zone.
RealignmentShortLead ==
  Settled("computeNextSlots")
    /\ Config.draftLeadHours < Config.intervalDays * HoursPerDay
    /\ Config.timezone.dstFrom = Null =>
    computeNextSlots(Slots.createAt, Config).scheduledAt >= Slots.scheduledAt

\* What holds instead of C30: two consecutive slots are at least
\* intervalDays days apart, less the hour that daylight saving time takes.
SpacedByIntervalAtLeast ==
  Settled("getUpcomingSlots") =>
    \A i \in 1..(Len(Slots) - 1) :
      Slots[i + 1].publishAt - Slots[i].publishAt
        >= Config.intervalDays * HoursPerDay - 1

(***************************************************************************)
(* validateCadenceConfig (SpecCadence) and resetIdea (SpecIdeas).          *)
(***************************************************************************)
\* the errors that the invariants config violates call for
IntervalViolated(config) ==
  config.intervalDays = Null \/ config.intervalDays[1] < 1
PublishHourViolated(config) ==
  config.publishHour = Null \/ config.publishHour[1] < 0
    \/ config.publishHour[1] > 23
TimezoneViolated(config) ==
  config.timezone = Null \/ config.timezone[1] \notin ZoneNames
DraftLeadViolated(config) ==
  config.draftLeadHours = Null \/ config.draftLeadHours[1] < 1
OneIf(b) == IF b THEN 1 ELSE 0
ViolatedCount(config) ==
  OneIf(IntervalViolated(config)) + OneIf(PublishHourViolated(config))
    + OneIf(TimezoneViolated(config)) + OneIf(DraftLeadViolated(config))

\* C31: validateCadenceConfig returns one error for each invariant that the
\* configuration violates (interval below 1, publish hour outside 0..23,
\* time zone missing or not resolvable, draft lead below 1), and the empty
\* list exactly when it violates none.
C31_OneErrorPerViolation ==
  Settled("validateCadenceConfig") =>
    Len(Op.ret[1]) = ViolatedCount(Op.upd.config)

\* What holds instead of C31: one error for each violated invariant, a
\* time zone that is given but cannot be resolved not counted.
OneErrorPerViolationZoneGiven ==
  Settled("validateCadenceConfig") =>
    Len(Op.ret[1]) =
      ViolatedCount(Op.upd.config)
        - OneIf(Op.upd.config.timezone # Null
                    /\ Op.upd.config.timezone[1] \notin ZoneNames \cup {""})

\* C32: after resetIdea(id) has succeeded on a stored idea, the stored
\* status of the idea is UNUSED, whatever it was before.
C32_ResetMakesUnused ==
  Settled("resetIdea") /\ Op.err = "" /\ Op.ideaId \in DOMAIN ideas =>
    ideas[Op.ideaId].status = "UNUSED"

\* What holds instead of C32: resetIdea leaves the status as it was.
ResetKeepsStatus ==
  Settled("resetIdea") /\ Op.ideaId \in DOMAIN Before.ideas =>
    /\ Op.ideaId \in DOMAIN ideas
    /\ ideas[Op.ideaId].status = Before.ideas[Op.ideaId].status

(***************************************************************************)
(* Overlapping lifecycle operations (SpecLifecycleRace).                   *)
(***************************************************************************)
\* C33: under any interleaving of lifecycle operations on a post, every
\* change of its stored status from s to another status s' is a pair of the
\* transition table; a stored PUBLISHED only changes to REGENRATE.
C33_StoredChangesAreLegal ==
  [][\A id \in (DOMAIN posts) \cap (DOMAIN posts') :
       posts'[id].status # posts[id].status =>
         posts'[id].status \in validTransitions[posts[id].status]]_vars

\* What holds instead of C33 when operations overlap: every change of the
\* stored status is made by an operation that read the post earlier, and the
\* new status follows, in the transition table, the status that operation
\* read, or is that status (updatePost asked for the status it read).
C33_ChangesLegalFromStatusRead ==
  [][\A id \in (DOMAIN posts) \cap (DOMAIN posts') :
       posts'[id].status # posts[id].status =>
         \E c \in Callers :
           /\ proc'[c] # proc[c]
           /\ proc[c].postId = id
           /\ proc[c].cur # Null
           /\ \/ posts'[id].status = proc[c].cur[1].status
              \/ posts'[id].status
                   \in validTransitions[proc[c].cur[1].status]]_vars

\* two operations have read the post as APPROVED and both have written: the
\* status stored last does not follow the one stored before it
C33_Witness ==
  \E c, d \in Callers :
    /\ c # d
    /\ proc[c].pc = "up_written" /\ proc[d].pc = "up_written"
    /\ proc[c].cur # Null /\ proc[d].cur # Null
    /\ proc[c].cur[1].status = "APPROVED"
    /\ proc[d].cur[1].status = "APPROVED"
    /\ proc[c].upd.status = "REGENRATE"
    /\ proc[d].upd.status = "PUBLISHED"
    /\ "p1" \in DOMAIN posts /\ posts["p1"].status = "PUBLISHED"

\* C34: review gate: every change of the stored status of a post from
\* another status to PUBLISHED comes after the post was stored APPROVED,
\* since it was created or since it last left PUBLISHED, in every
\* interleaving.  No operation of SpecLifecycleRace approves the post, and
\* publishedAt is stamped when the post becomes PUBLISHED and never cleared:
\* a post that has left PUBLISHED is not stored as PUBLISHED again.
C34_ReviewGate ==
  [][\A id \in (DOMAIN posts) \cap (DOMAIN posts') :
       posts[id].status # "PUBLISHED" /\ posts'[id].status = "PUBLISHED" =>
         posts[id].publishedAt = Null]_vars

\* What holds instead of C34 when operations overlap: the operation that
\* stores PUBLISHED over another status has read the post as APPROVED,
\* SCHEDULED or PUBLISHED.
C34_GateOnStatusRead ==
  [][\A id \in (DOMAIN posts) \cap (DOMAIN posts') :
       posts[id].status # "PUBLISHED" /\ posts'[id].status = "PUBLISHED" =>
         \E c \in Callers :
           /\ proc'[c] # proc[c]
           /\ proc[c].postId = id
           /\ proc[c].cur # Null
           /\ proc[c].cur[1].status
                \in {"APPROVED", "SCHEDULED", "PUBLISHED"}]_vars

\* an operation that read the post as PUBLISHED has stored PUBLISHED after
\* another one stored REGENRATE
C34_Witness ==
  \E c, d \in Callers :
    /\ c # d
    /\ proc[c].pc = "up_written"
    /\ proc[d].pc \in {"up_written", "up_reread", "done"}
    /\ proc[c].cur # Null /\ proc[d].cur # Null
    /\ proc[c].cur[1].status = "PUBLISHED"
    /\ proc[d].cur[1].status = "PUBLISHED"
    /\ proc[c].upd.status = "PUBLISHED"
    /\ proc[d].upd.status = "REGENRATE"
    /\ proc[d].err = ""
    /\ "p1" \in DOMAIN posts /\ posts["p1"].status = "PUBLISHED"

\* the other callers run nothing that sets an idea USED: each is idle or in
\* an updatePostStatus to REGENRATE
OnlyPublisher(c) ==
  \A d \in Callers \ {c} :
    \/ proc[d].op = "idle"
    \/ /\ proc[d].op = "updatePostStatus"
       /\ proc[d].upd.status = "REGENRATE"

\* C35: a publishPost call that has failed has left the stored status of the
\* idea as it was before the call, also when another operation changed the
\* status of the post between the status check of publishPost and its write.
C35_FailedPublishKeepsIdea ==
  \A c \in Callers :
    /\ proc[c].op = "publishPost" /\ proc[c].pc = "done"
    /\ proc[c].err # ""
    /\ OnlyPublisher(c)
    => ideas = proc[c].pre[1].ideas

(***************************************************************************)
(* Posts without an idea (Spec).                                           *)
(***************************************************************************)
\* C36: on a post whose ideaId is empty or names an idea that is not stored,
\* updatePost and updatePostStatus do not fail for want of the idea: an
\* update without a status, or with a status that the transition table
\* allows and that is not PUBLISHED, succeeds.
C36_UpdatesWithoutIdea ==
  ( /\ Settled("updatePostStatus") \/ Settled("updatePost")
    /\ CalledOnPost
    /\ Before.posts[Op.postId].ideaId \notin DOMAIN Before.ideas
    /\ "status" \in DOMAIN Op.upd
         => /\ Op.upd.status \in validTransitions[StatusBefore]
            /\ Op.upd.status # "PUBLISHED" )
  => Op.err = ""

(***************************************************************************)
(* The post a regenerate notification carries (SpecHooks).                 *)
(***************************************************************************)
\* C37: whenever a request is sent to the regenerate webhook for a post, the
\* status of the post in the store and the status in the payload are
\* REGENRATE; an update that the auto-advance leaves in another status sends
\* nothing.
C37_NotifiedPostIsRegenerate ==
  [][Dispatched =>
       LET sent == hooks'[Len(hooks')]
       IN  /\ sent.postId \in DOMAIN posts'
           /\ posts'[sent.postId].status = "REGENRATE"
           /\ "status" \in DOMAIN sent.post
           /\ sent.post.status = "REGENRATE"]_vars

(***************************************************************************)
(* scheduledAt (Spec).                                                     *)
(***************************************************************************)
\* C38: a status change through updatePostStatus whose request carries no
\* scheduledAt leaves the stored scheduledAt of the post as it was.  The
\* requests of POST /posts/:id/status carry none.
C38_ScheduledAtKept ==
  Settled("updatePostStatus") /\ Op.err = "" /\ CalledOnPost
    /\ Op.postId \in DOMAIN posts
    => posts[Op.postId].scheduledAt = Before.posts[Op.postId].scheduledAt

\* the entry under key has outlived its expiry instant
Expired(key) == key \in DOMAIN cache /\ now > cache[key].expiresAt

\* a run of the sweep that removes something: the map changes while no
\* caller moves, the clock stands and the interval stays set
SweepRuns ==
  /\ proc' = proc
  /\ now' = now
  /\ cleanupInterval'
  /\ cache' # cache

\* C39: whatever the callers are doing, a run of the sweep removes exactly
\* the entries whose expiry instant has passed and leaves the others as they
\* are; and while the cache has not been destroyed, an entry that has
\* expired does not stay: it is eventually gone.
C39_SweepRemovesExpired ==
  /\ [][SweepRuns =>
          /\ DOMAIN cache' = {k \in DOMAIN cache : ~(now > cache[k].expiresAt)}
          /\ \A k \in DOMAIN cache' : cache'[k] = cache[k]]_vars
  /\ \A key \in CacheKeys : (cleanupInterval /\ Expired(key)) ~> ~Expired(key)

\* An entry was set and not read since, time has passed and the sweep has
\* removed it, while an entry that has not expired is still there.
C39_Witness ==
  /\ Settled("cache.set")
  /\ cleanupInterval
  /\ Op.upd.key \notin DOMAIN cache
  /\ \E k \in DOMAIN cache : ~Expired(k) /\ cache[k].createdAt < now

\* C40: for a fixed valid configuration computeNextSlots is monotone in now:
\* called with a later now it does not return an earlier publishAt.
C40_MonotoneInNow ==
  Settled("computeNextSlots") =>
    \A now2 \in Instants :
      Op.upd.now <= now2 =>
        Slots.scheduledAt <= computeNextSlots(now2, Config).scheduledAt

====
